---- MODULE Spec2Model ----
(***************************************************************************)
(* A model of the weave-chunker pipeline: the sqlite-backed VectorStore    *)
(* (meta / chunks / vec_chunks), bake's batch loop and id assignment, the  *)
(* heading-aware sectionizer of chunkMarkdownByMeaning, and search's       *)
(* filter / score / sort / slice stage.                                    *)
(*                                                                         *)
(* Each subsystem has its own specification (Spec, SpecBake, SpecSect,     *)
(* SpecSearch, SpecSplit, SpecCli, SpecEmbed, SpecCliSearch, SpecLore,     *)
(* SpecAgent); the variables of the other subsystems stay at their idle    *)
(* values.                                                                 *)
(***************************************************************************)
EXTENDS Integers, Sequences, FiniteSets, TLC

VARIABLES
  \* ---- the database file (persistent) ----
  metaDim,      \* meta row key='dim': its TEXT value (a digit sequence), or NoRow
  vecTable,     \* whether the virtual table vec_chunks exists
  chunks,       \* table chunks: rid -> [id, path, chunk, sha, metadata]
  vecs,         \* table vec_chunks: rowid -> embedding
  \* ---- the VectorStore instance ----
  dim,          \* this.dim (0: null, until setDim/getDim)
  last,         \* the last call made on the store and how it ended
  \* ---- bake ----
  files,        \* the markdown files of opts.dir, in walkMarkdown's order
  bk,           \* the bake run: its number, position, dimSet and total
  emitted,      \* per run, the rows handed to upsertMany so far (id, metadata)
  \* ---- chunkMarkdownByMeaning: the line loop ----
  doc,          \* the lines read so far
  current,      \* the heading context {h1, h2, h3}
  sectionBuf,   \* the lines of the open section
  sections,     \* the sections flushed so far
  inFence,      \* inside a fenced code block
  scPc,         \* "idle" | "lines" (in the loop) | "done" (after the last flush)
  \* ---- search ----
  corpus,       \* the stored rows by ascending distance to the query vector
  srch,         \* the last search: its options, its reads and what it printed
  \* ---- chunkMarkdownByMeaning: one section turned into chunks ----
  secIn,        \* the section, the source file and options.maxTokens
  secOut,       \* the chunks pushed for it
  \* ---- embedBatch ----
  embCall,      \* the last call: what the routes did and what it gave
  \* ---- the historian agent ----
  agent         \* one query(): its place in the research loop and its calls

storeVars == <<metaDim, vecTable, chunks, vecs, dim, last>>
bakeVars == <<files, bk, emitted>>
sectVars == <<doc, current, sectionBuf, sections, inFence, scPc>>
searchVars == <<corpus, srch>>
splitVars == <<secIn, secOut>>
embVars == <<embCall>>
agentVars == <<agent>>
vars == <<storeVars, bakeVars, sectVars, searchVars, splitVars, embVars, agentVars>>

-----------------------------------------------------------------------------
(* Bounds of the model *)

MaxBatch == 2    \* rows per upsertMany call in the store specification
MaxBlocks == 17  \* blocks of the longest split section of a baked file
MaxRuns == 2     \* bake runs over the same directory and database
EmbDim == 2      \* width of the embedding service's vectors
MaxHits == 3     \* stored rows in the search specification
MaxParas == 3    \* paragraphs of a section given to the splitter
MaxLines == 4    \* lines of a document given to the sectionizer
MaxTexts == 2    \* texts of one embedBatch call
MaxCliRows == 2  \* stored rows in the command line's search specification
MaxCalls == 2    \* tool calls in one chat response

-----------------------------------------------------------------------------
(* Generic helpers *)

NoRow == <<>>     \* SELECT ... .get() found no row

Max(S) == CHOOSE x \in S : \A y \in S : y <= x

Range(s) == {s[i] : i \in DOMAIN s}

SeqsUpTo(S, n) == UNION {[1..k -> S] : k \in 0..n}

-----------------------------------------------------------------------------
(* VectorStore: the dim row of meta is TEXT; setDim writes String(dim) and  *)
(* setDim/getDim read it back with Number(row.value).                       *)

RECURSIVE String(_)
String(n) == IF n < 10 THEN <<n>> ELSE Append(String(n \div 10), n % 10)

RECURSIVE Number(_)
Number(s) == IF Len(s) = 0 THEN 0
             ELSE 10 * Number(SubSeq(s, 1, Len(s) - 1)) + s[Len(s)]

\* Embedding widths: an established width and a shorter or a longer one.
Dims == {1, 2}

\* The rows bake or another caller may hand to upsertMany. A row's payload
\* (path, chunk, sha, metadata) and the values of its embedding are those of
\* one of two versions of the chunk; the embedding's length varies freely.
ChunkIds == {"c1", "c2"}
Versions == {1, 2}

Embedding(v, n) == [i \in 1..n |-> v]

InRow(id, v, n) ==
  [id |-> id, path |-> v, chunk |-> v, sha |-> v, metadata |-> v,
   embedding |-> Embedding(v, n)]

InRows == {InRow(id, v, n) : id \in ChunkIds, v \in Versions, n \in Dims}

Batches == SeqsUpTo(InRows, MaxBatch)

\* A statement of the transaction may throw for a reason outside the row's
\* dimension (malformed vector JSON, a constraint, I/O). The model lets the
\* vector write of row `fault` throw, after the row's chunk record is written
\* (a throw before the row's first write is what the dimension check does).
\* fault = 0: no statement throws. The loop ends at the throw, so a throw at
\* row i of a longer batch is the throw at the last row of its first i rows.
Faults(rows) == {0, Len(rows)}

\* SQLite assigns an INTEGER PRIMARY KEY as max(rowid)+1.
NextRid(c) == IF DOMAIN c = {} THEN 1 ELSE Max(DOMAIN c) + 1

StoredRow(r) ==
  [id |-> r.id, path |-> r.path, chunk |-> r.chunk, sha |-> r.sha,
   metadata |-> r.metadata]

\* INSERT INTO chunks ... without conflict handling bound to id: every run
\* adds a row.
upsertChunkMetaAlwaysInsert(c, r) == c @@ (NextRid(c) :> StoredRow(r))

\* INSERT OR REPLACE: the conflicting row is deleted and a new one inserted.
upsertChunkMetaReplace(c, r) ==
  LET keep == {rid \in DOMAIN c : c[rid].id # r.id}
      rest == [rid \in keep |-> c[rid]]
  IN  rest @@ (NextRid(c) :> StoredRow(r))

\* An upsert that first deletes the rows stored for the same path.
upsertChunkMetaClearsPath(c, r) ==
  LET keep == {rid \in DOMAIN c : c[rid].path # r.path}
      rest == [rid \in keep |-> c[rid]]
  IN  rest @@ (NextRid(c) :> StoredRow(r))

\* INSERT INTO chunks(...) VALUES (...) ON CONFLICT(id) DO UPDATE SET ...
upsertChunkMeta(c, r) ==
  IF \E rid \in DOMAIN c : c[rid].id = r.id
  THEN [rid \in DOMAIN c |-> IF c[rid].id = r.id THEN StoredRow(r) ELSE c[rid]]
  ELSE c @@ (NextRid(c) :> StoredRow(r))

\* SELECT rid FROM chunks WHERE id = @id   (0: no row)
selectRid(c, id) ==
  IF \E rid \in DOMAIN c : c[rid].id = id
  THEN CHOOSE rid \in DOMAIN c : c[rid].id = id
  ELSE 0

\* UPDATE vec_chunks SET embedding = ... WHERE rowid = rid
updateVec(v, rid, emb) ==
  IF rid \in DOMAIN v
  THEN [changes |-> 1, vecs |-> [v EXCEPT ![rid] = emb]]
  ELSE [changes |-> 0, vecs |-> v]

\* INSERT INTO vec_chunks(rowid, embedding) VALUES (rid, ...)
insertVec(v, rid, emb) == v @@ (rid :> emb)

\* r.embedding.length !== ensureDim, with the comparison slipped to ">"
badDimOnlyLonger(r, ensureDim) == Len(r.embedding) > ensureDim

\* if (r.embedding.length !== ensureDim) throw
badDim(r, ensureDim) == Len(r.embedding) # ensureDim

\* One pass of the loop body of tx, for row i = rows[i]. st = [threw, at,
\* chunks, vecs]: what the transaction has written so far, and the row at
\* which it threw (0: it has not).
txRow(st, r, i, ensureDim, fail) ==
  IF st.threw THEN st
  ELSE IF badDim(r, ensureDim) THEN [st EXCEPT !.threw = TRUE, !.at = i]
  ELSE
    LET c2  == upsertChunkMeta(st.chunks, r)
        rid == selectRid(c2, r.id)
    IN  IF rid = 0 \/ fail
        THEN [threw |-> TRUE, at |-> i, chunks |-> c2, vecs |-> st.vecs]
        ELSE
          LET u  == updateVec(st.vecs, rid, r.embedding)
              v2 == IF u.changes = 0 THEN insertVec(u.vecs, rid, r.embedding)
                    ELSE u.vecs
          IN  [threw |-> FALSE, at |-> 0, chunks |-> c2, vecs |-> v2]

RECURSIVE txLoop(_, _, _, _, _)
txLoop(st, rows, i, ensureDim, fault) ==
  IF i > Len(rows) THEN st
  ELSE txLoop(txRow(st, rows[i], i, ensureDim, fault = i),
              rows, i + 1, ensureDim, fault)

TxBegin(c, v) == [threw |-> FALSE, at |-> 0, chunks |-> c, vecs |-> v]

\* A transaction that commits what it wrote before the throw.
txNoRollback(c, v, rows, ensureDim, fault) ==
  txLoop(TxBegin(c, v), rows, 1, ensureDim, fault)

\* A rollback that does not reach the virtual table vec_chunks.
txRollbackChunksOnly(c, v, rows, ensureDim, fault) ==
  LET st == txLoop(TxBegin(c, v), rows, 1, ensureDim, fault)
  IN  IF st.threw THEN [st EXCEPT !.chunks = c] ELSE st

\* this.db.transaction(fn)(rows): commit when fn returns, roll back when it throws.
tx(c, v, rows, ensureDim, fault) ==
  LET st == txLoop(TxBegin(c, v), rows, 1, ensureDim, fault)
  IN  IF st.threw THEN [st EXCEPT !.chunks = c, !.vecs = v] ELSE st

\* getDim(): [threw, value, dim] where dim is this.dim afterwards; this.dim
\* is 0 while it is null (if (this.dim) treats both alike).
getDim(cache, meta) ==
  IF cache # 0 THEN [threw |-> FALSE, value |-> cache, dim |-> cache]
  ELSE IF meta = NoRow THEN [threw |-> TRUE, value |-> 0, dim |-> cache]
  ELSE [threw |-> FALSE, value |-> Number(meta), dim |-> Number(meta)]

\* upsertMany(rows) on a store [meta, vecTable, chunks, vecs, dim]:
\* getDim, prepare the four statements (needs vec_chunks), run tx.
upsertMany(s, rows, fault) ==
  LET g == getDim(s.dim, s.meta)
  IN  IF g.threw THEN [threw |-> TRUE, at |-> 0, store |-> s]
      ELSE IF ~s.vecTable
      THEN [threw |-> TRUE, at |-> 0, store |-> [s EXCEPT !.dim = g.dim]]
      ELSE
        LET t == tx(s.chunks, s.vecs, rows, g.value, fault)
        IN  [threw |-> t.threw, at |-> t.at,
             store |-> [s EXCEPT !.dim = g.dim, !.chunks = t.chunks, !.vecs = t.vecs]]

\* setDim with INSERT OR REPLACE in place of the mismatch check.
setDimOverwrite(s, d, createOk) ==
  IF ~createOk /\ ~s.vecTable
  THEN [threw |-> TRUE, store |-> [s EXCEPT !.meta = String(d)]]
  ELSE [threw |-> FALSE,
        store |-> [s EXCEPT !.meta = String(d), !.vecTable = TRUE, !.dim = d]]

\* setDim(dim). createOk: whether CREATE VIRTUAL TABLE succeeds; the INSERT
\* into meta before it is committed on its own.
setDim(s, d, createOk) ==
  IF s.meta = NoRow
  THEN IF createOk
       THEN [threw |-> FALSE,
             store |-> [s EXCEPT !.meta = String(d), !.vecTable = TRUE, !.dim = d]]
       ELSE [threw |-> TRUE, store |-> [s EXCEPT !.meta = String(d)]]
  ELSE IF Number(s.meta) # d THEN [threw |-> TRUE, store |-> s]
  ELSE [threw |-> FALSE, store |-> [s EXCEPT !.dim = d]]

-----------------------------------------------------------------------------
(* The store specification: calls on one database file *)

Store == [meta |-> metaDim, vecTable |-> vecTable, chunks |-> chunks,
          vecs |-> vecs, dim |-> dim]

SetStore(s) ==
  /\ metaDim' = s.meta
  /\ vecTable' = s.vecTable
  /\ chunks' = s.chunks
  /\ vecs' = s.vecs
  /\ dim' = s.dim

EmptyFn == [x \in {} |-> 0]

\* The last call: its name, whether it threw, its argument or result (setDim:
\* the width given; getDim: the width returned; upsertMany: the row at which
\* the transaction threw), and what it was given: whether
\* some row's embedding length differed from the width the database records, and the
\* row the batch gives last for each chunk id.
Mismatch(rows, meta) ==
  meta # NoRow /\ \E i \in DOMAIN rows : Len(rows[i].embedding) # Number(meta)

LastWrite(rows) ==
  [id \in {rows[i].id : i \in DOMAIN rows} |->
     rows[Max({i \in DOMAIN rows : rows[i].id = id})]]

Call(op, threw, arg, rows) ==
  [op |-> op, threw |-> threw, arg |-> arg,
   mismatch |-> Mismatch(rows, metaDim), wrote |-> LastWrite(rows)]

NoCall == Call("open", FALSE, 0, <<>>)

BakeIdle ==
  /\ files = <<>>
  /\ bk = [run |-> 0, pc |-> "idle", f |-> 0, i |-> 0, dimSet |-> FALSE, total |-> 0]
  /\ emitted = <<>>

NoFrame == [level |-> 0, slug |-> <<>>, title |-> <<>>]

SectIdle ==
  /\ doc = <<>>
  /\ current = [h1 |-> NoFrame, h2 |-> NoFrame, h3 |-> NoFrame]
  /\ sectionBuf = <<>>
  /\ sections = <<>>
  /\ inFence = FALSE
  /\ scPc = "idle"

NoSearch == [pc |-> "idle"]

SearchIdle ==
  /\ corpus = <<>>
  /\ srch = NoSearch

SplitIdle ==
  /\ secIn = <<>>
  /\ secOut = [pc |-> "idle"]

EmbedIdle == embCall = [pc |-> "idle"]

AgentIdle == agent = [pc |-> "idle"]

StoreInit ==
  /\ metaDim = NoRow
  /\ vecTable = FALSE
  /\ chunks = EmptyFn
  /\ vecs = EmptyFn
  /\ dim = 0
  /\ last = NoCall

\* new VectorStore(dbPath): CREATE TABLE IF NOT EXISTS keeps what is there.
Open ==
  /\ dim' = 0
  /\ last' = NoCall
  /\ UNCHANGED <<metaDim, vecTable, chunks, vecs>>
  /\ UNCHANGED <<bakeVars, sectVars, searchVars, splitVars, embVars, agentVars>>

SetDim ==
  \E d \in Dims, createOk \in BOOLEAN :
    \E r \in {setDim(Store, d, createOk)} :
        /\ SetStore(r.store)
        /\ last' = Call("setDim", r.threw, d, <<>>)
        /\ UNCHANGED <<bakeVars, sectVars, searchVars, splitVars, embVars, agentVars>>

GetDim ==
  \E g \in {getDim(dim, metaDim)} :
      /\ dim' = g.dim
      /\ last' = Call("getDim", g.threw, g.value, <<>>)
      /\ UNCHANGED <<metaDim, vecTable, chunks, vecs>>
      /\ UNCHANGED <<bakeVars, sectVars, searchVars, splitVars, embVars, agentVars>>

UpsertMany ==
  \E rows \in Batches :
    \E fault \in Faults(rows) :
      \E r \in {upsertMany(Store, rows, fault)} :
          /\ SetStore(r.store)
          /\ last' = Call("upsertMany", r.threw, r.at, rows)
          /\ UNCHANGED <<bakeVars, sectVars, searchVars, splitVars, embVars, agentVars>>

Init == StoreInit /\ BakeIdle /\ SectIdle /\ SearchIdle /\ SplitIdle
  /\ EmbedIdle /\ AgentIdle

Next == Open \/ SetDim \/ GetDim \/ UpsertMany

Spec == Init /\ [][Next]_vars

-----------------------------------------------------------------------------
(* Properties of the store (checked under Spec) *)

UpsertStep == last'.op = "upsertMany"
SetDimStep == last'.op = "setDim"
GetDimStep == last'.op = "getDim"

IdsStored == {chunks[rid].id : rid \in DOMAIN chunks}

\* C1: after any sequence of setDim and upsertMany calls, committed or thrown,
\* the row ids of the chunk-record table are exactly the row ids of the vector
\* index: no chunk record without a vector, no vector without a chunk record.
C1_RowsAndVectorsPaired == DOMAIN chunks = DOMAIN vecs

\* An upsertMany threw at its second row while two paired rows are stored.
C1_Witness ==
  /\ last.op = "upsertMany" /\ last.threw /\ last.arg = 2
  /\ Cardinality(DOMAIN chunks) = 2
  /\ DOMAIN vecs = DOMAIN chunks

\* C2: when upsertMany throws at any row of the batch, the chunk-record table
\* and the vector index are exactly what they were before the call.
C2_ThrowLeavesTablesAsBefore ==
  [][(UpsertStep /\ last'.threw) => (chunks' = chunks /\ vecs' = vecs)]_vars

\* An upsertMany threw at its second row, after its first row was written
\* inside the transaction, and no row is stored.
C2_Witness ==
  /\ last.op = "upsertMany" /\ last.threw /\ last.arg = 2
  /\ ~last.mismatch
  /\ chunks = EmptyFn /\ vecs = EmptyFn

\* C3: an upsertMany whose batch holds an embedding of another length than the
\* recorded dimension throws, wherever that row stands in the batch, and
\* leaves chunk records, vectors and the recorded dimension unchanged.
C3_WrongLengthAlwaysThrows ==
  [][(UpsertStep /\ last'.mismatch) =>
       /\ last'.threw
       /\ chunks' = chunks /\ vecs' = vecs
       /\ metaDim' = metaDim /\ vecTable' = vecTable]_vars

\* The mismatching row was the second of the batch, the first one matched,
\* and rows are stored.
C3_Witness ==
  /\ last.op = "upsertMany" /\ last.mismatch /\ last.threw /\ last.arg = 2
  /\ chunks # EmptyFn

\* C4: the dimension is write-once. Once the database records a dimension it
\* never changes; setDim with another width throws; setDim with the recorded
\* width succeeds and changes nothing in the database; a successful setDim(d)
\* leaves a record that reads back as d, and a (new) instance's getDim
\* returns the recorded width.
C4_DimensionWriteOnce ==
  [][/\ (metaDim # NoRow => metaDim' = metaDim)
     /\ (SetDimStep /\ metaDim # NoRow /\ last'.arg # Number(metaDim)
           => last'.threw /\ dim' = dim)
     /\ (SetDimStep /\ metaDim # NoRow /\ last'.arg = Number(metaDim)
           => /\ ~last'.threw
              /\ UNCHANGED <<metaDim, vecTable, chunks, vecs>>)
     /\ (SetDimStep /\ ~last'.threw
           => Number(metaDim') = last'.arg /\ dim' = last'.arg)
     /\ (GetDimStep /\ metaDim # NoRow
           => ~last'.threw /\ last'.arg = Number(metaDim) /\ dim' = last'.arg)
    ]_vars

\* setDim with another width than the recorded one threw, on a store whose
\* vector table exists and holds rows.
C4_Witness ==
  /\ last.op = "setDim" /\ last.threw
  /\ metaDim # NoRow /\ vecTable /\ last.arg # Number(metaDim)
  /\ chunks # EmptyFn

\* C5: a successful upsertMany keeps every stored row id bound to its chunk
\* id, adds a row only for a chunk id not stored before, leaves each chunk id
\* of the batch with the path, text, hash, metadata and vector the batch gave
\* it last, and repeating the previous successful call changes nothing.
C5_UpsertInPlaceLastWriterWins ==
  [][(UpsertStep /\ ~last'.threw) =>
       /\ \A rid \in DOMAIN chunks :
            rid \in DOMAIN chunks' /\ chunks'[rid].id = chunks[rid].id
       /\ Cardinality(DOMAIN chunks') =
            Cardinality(DOMAIN chunks)
              + Cardinality(DOMAIN last'.wrote \ IdsStored)
       /\ \A id \in DOMAIN last'.wrote :
            \E rid \in DOMAIN chunks' :
              /\ chunks'[rid] = StoredRow(last'.wrote[id])
              /\ rid \in DOMAIN vecs'
              /\ vecs'[rid] = last'.wrote[id].embedding
              /\ \A other \in DOMAIN chunks' :
                   chunks'[other].id = id => other = rid
       /\ (last.op = "upsertMany" /\ ~last.threw /\ last.wrote = last'.wrote
             => chunks' = chunks /\ vecs' = vecs)]_vars

\* A batch for the chunk id bound to row id 1 alone was committed while a
\* later row exists: the call rewrote a stored row, with version 2.
C5_Witness ==
  /\ last.op = "upsertMany" /\ ~last.threw
  /\ DOMAIN chunks = {1, 2}
  /\ DOMAIN last.wrote = {chunks[1].id}
  /\ chunks[1].chunk = 2 /\ vecs[1] = Embedding(2, Len(vecs[1]))

-----------------------------------------------------------------------------
(* bake: each file's chunks, in slices of BATCH, are embedded and upserted *)

BATCH == 16

\* parent_chunk_id: null
NoParent == ""

Min(a, b) == IF a < b THEN a ELSE b

\* A file's sections as the chunker leaves them: the section's path and the
\* number of blocks its text makes (1: within the budget or not splittable).
SectionPaths == {"a", "b"}
BlockCounts == {1, 2, MaxBlocks}
Sections == [path : SectionPaths, blocks : BlockCounts]

\* The chunks chunkMarkdownByMeaning pushes for section k of file rel: one
\* with parent_chunk_id null, or one per block with parent_chunk_id
\* "<file>:<path>". A chunk's text is named by its place <<rel, k, b>>.
SectionChunks(rel, k, sec) ==
  [b \in 1..sec.blocks |->
     [text |-> <<rel, k, b>>,
      meta |-> [source_file |-> rel,
                section_path |-> sec.path,
                parent_chunk_id |->
                  IF sec.blocks = 1 THEN NoParent ELSE rel \o ":" \o sec.path]]]

RECURSIVE chunkFile(_, _, _)
chunkFile(rel, secs, k) ==
  IF k > Len(secs) THEN <<>>
  ELSE SectionChunks(rel, k, secs[k]) \o chunkFile(rel, secs, k + 1)

FileChunks(f) == chunkFile(files[f].rel, files[f].secs, 1)

\* sha1 is taken to be free of collisions: a digest is named by its input.
sha1(str) == str

\* What one route (embedViaOllama, embedViaOpenAI) does for a list of texts:
\* it throws, or gives a list of vectors.
Thrown(route) == [route |-> route, threw |-> TRUE, vecs |-> <<>>]
Served(route, vs) == [route |-> route, threw |-> FALSE, vecs |-> vs]

\* An embedBatch that asks the alternate route whatever the preferred one did.
embedBatchAlwaysBoth(preferNative, viaOllama, viaOpenAI) ==
  LET second == IF preferNative THEN viaOpenAI ELSE viaOllama
      first  == IF preferNative THEN viaOllama ELSE viaOpenAI
      width  == IF second.threw \/ second.vecs = <<>> THEN 0 ELSE Len(second.vecs[1])
  IN  [threw |-> second.threw \/ width = 0,
       vectors |-> IF second.threw \/ width = 0 THEN <<>> ELSE second.vecs,
       dim |-> width, tried |-> <<first.route, second.route>>]

\* embedBatch(model, texts): try the preferred route; catch: the other one
\* (whose throw propagates); dim = vecs[0]?.length ?? 0; throw when dim is 0.
\* tried: the routes asked, in order.
embedBatch(preferNative, viaOllama, viaOpenAI) ==
  LET first  == IF preferNative THEN viaOllama ELSE viaOpenAI
      second == IF preferNative THEN viaOpenAI ELSE viaOllama
      tried  == IF first.threw THEN <<first.route, second.route>>
                ELSE <<first.route>>
      got    == IF first.threw THEN second ELSE first
      width  == IF got.threw \/ got.vecs = <<>> THEN 0 ELSE Len(got.vecs[1])
  IN  IF got.threw \/ width = 0
      THEN [threw |-> TRUE, vectors |-> <<>>, dim |-> 0, tried |-> tried]
      ELSE [threw |-> FALSE, vectors |-> got.vecs, dim |-> width, tried |-> tried]

\* The embedding service as bake meets it: down on both routes, or up and
\* giving every text a vector of the width of the model it runs.
Service(texts, up, width) ==
  [route \in {"ollama", "openai"} |->
     IF up THEN Served(route, [t \in DOMAIN texts |-> Embedding(1, width)])
     ELSE Thrown(route)]

\* The widths the service may have: that of its model, and, once the database
\* records a width, that of another model.
Widths(meta) == IF meta = NoRow THEN {EmbDim} ELSE {EmbDim, EmbDim + 1}

\* The row bake builds for chunk s at index j (from 0) of the slice.
bakeRow(rel, s, j, vector) ==
  LET parent == s.meta.parent_chunk_id
      subKey == IF parent # NoParent THEN ":" \o ToString(j) ELSE ""
  IN  [id |-> sha1(s.meta.source_file \o ":" \o s.meta.section_path \o subKey),
       path |-> rel,
       chunk |-> s.text,
       embedding |-> vector,
       sha |-> sha1(<<rel, s.text>>),
       metadata |-> s.meta]

\* The first file after f at which the loop over walkMarkdown stops (0:
\* none): a file fs.readFile throws on, or a file that has chunks; files
\* read without chunks are passed over.
NextFile(f) ==
  LET later == {g \in (f + 1)..Len(files) :
                  ~files[g].readable \/ Len(FileChunks(g)) > 0}
  IN  IF later = {} THEN 0 ELSE CHOOSE g \in later : \A h \in later : g <= h

\* The loop's position on coming to file g: done after the last file, failed
\* when readFile throws (nothing in bake catches it).
GoTo(b, g) ==
  IF g = 0 THEN [b EXCEPT !.pc = "done"]
  ELSE IF ~files[g].readable THEN [b EXCEPT !.pc = "failed", !.f = g, !.i = 0]
  ELSE [b EXCEPT !.pc = "running", !.f = g, !.i = 0]

\* Where the loops stand after the slice at (f, i).
Advance(b, n) ==
  LET len == Len(FileChunks(b.f))
      g   == NextFile(b.f)
  IN  IF b.i + BATCH < len
      THEN [b EXCEPT !.i = b.i + BATCH, !.total = b.total + n, !.dimSet = TRUE]
      ELSE GoTo([b EXCEPT !.total = b.total + n, !.dimSet = TRUE], g)

Failed(b) == [b EXCEPT !.pc = "failed"]

\* One pass of bake's inner loop: slice, embedBatch, setDim on the first
\* batch, the rows, upsertMany. Gives the store, bake's position and the
\* rows built (<<>> when the pass threw before building them).
bakeBatch(st, b, embedOk, width, createOk, fault) ==
  LET all   == FileChunks(b.f)
      slice == SubSeq(all, b.i + 1, Min(b.i + BATCH, Len(all)))
      texts == [j \in DOMAIN slice |-> slice[j].text]
      svc   == Service(texts, embedOk, width)
      e     == embedBatch(TRUE, svc["ollama"], svc["openai"])
  IN  IF e.threw THEN [store |-> st, bk |-> Failed(b), rows |-> <<>>]
      ELSE
        LET sd == IF b.dimSet THEN [threw |-> FALSE, store |-> st]
                  ELSE setDim(st, e.dim, createOk)
        IN  IF sd.threw
            THEN [store |-> sd.store, bk |-> Failed(b), rows |-> <<>>]
            ELSE
              LET rows == [j \in DOMAIN slice |->
                             bakeRow(files[b.f].rel, slice[j], j - 1, e.vectors[j])]
                  u    == upsertMany(sd.store, rows, IF fault THEN Len(rows) ELSE 0)
              IN  [store |-> u.store,
                   bk |-> IF u.threw THEN Failed([b EXCEPT !.dimSet = TRUE])
                          ELSE Advance(b, Len(rows)),
                   rows |-> rows]

-----------------------------------------------------------------------------
(* The bake specification: up to MaxRuns runs over one directory *)

FileSets ==
  {<<[rel |-> "f1", secs |-> s1, readable |-> TRUE],
     [rel |-> "f2", secs |-> s2, readable |-> TRUE]>> :
     s1 \in SeqsUpTo(Sections, 2), s2 \in SeqsUpTo(Sections, 1)}

BakeInit ==
  /\ files \in FileSets
  /\ bk = [run |-> 0, pc |-> "idle", f |-> 0, i |-> 0, dimSet |-> FALSE, total |-> 0]
  /\ emitted = <<>>

Emit(log, rows, b, stored) ==
  [log EXCEPT ![Len(log)] =
     [rows |-> @.rows \o [j \in DOMAIN rows |->
                            [id |-> rows[j].id, chunk |-> rows[j].chunk,
                             metadata |-> rows[j].metadata]],
      pc |-> b.pc,
      stored |-> stored]]

\* bake(): new VectorStore; total = 0; dimSet = false; the first file.
FirstFile(run) ==
  GoTo([run |-> run, pc |-> "running", f |-> 0, i |-> 0,
        dimSet |-> FALSE, total |-> 0], NextFile(0))

BakeStart ==
  /\ bk.pc \in {"idle", "done", "failed"}
  /\ bk.run < MaxRuns
  /\ bk' = FirstFile(bk.run + 1)
  /\ emitted' = Append(emitted,
                       [rows |-> <<>>,
                        pc |-> FirstFile(bk.run + 1).pc,
                        stored |-> Cardinality(DOMAIN chunks)])
  /\ dim' = 0
  /\ UNCHANGED <<metaDim, vecTable, chunks, vecs, last, files>>
  /\ UNCHANGED <<sectVars, searchVars, splitVars, embVars, agentVars>>

BakeBatch ==
  /\ bk.pc = "running"
  /\ \E embedOk \in BOOLEAN, width \in Widths(metaDim),
          createOk \in BOOLEAN, fault \in BOOLEAN :
       \E r \in {bakeBatch(Store, bk, embedOk, width, createOk, fault)} :
         /\ SetStore(r.store)
         /\ bk' = r.bk
         /\ emitted' = Emit(emitted, r.rows, r.bk, Cardinality(DOMAIN r.store.chunks))
  /\ UNCHANGED <<last, files>>
  /\ UNCHANGED <<sectVars, searchVars, splitVars, embVars, agentVars>>

InitBake == StoreInit /\ BakeInit /\ SectIdle /\ SearchIdle /\ SplitIdle
  /\ EmbedIdle /\ AgentIdle

NextBake == BakeStart \/ BakeBatch

SpecBake == InitBake /\ [][NextBake]_vars

-----------------------------------------------------------------------------
(* Properties of bake (checked under SpecBake) *)

\* C6: when two bake runs in succession over the same files both complete, the
\* second hands upsertMany the same chunk ids with the same metadata, in the
\* same order, as the first, and the database holds as many rows after the
\* second as after the first.
C6_RebakeSameIdsNoGrowth ==
  \A r \in DOMAIN emitted :
    (r + 1 \in DOMAIN emitted /\ emitted[r].pc = "done" /\ emitted[r + 1].pc = "done")
      => /\ emitted[r + 1].rows = emitted[r].rows
         /\ emitted[r + 1].stored = emitted[r].stored

\* Two completed runs over files with more chunks than one batch holds.
C6_Witness ==
  /\ Len(emitted) = 2
  /\ emitted[1].pc = "done" /\ emitted[2].pc = "done"
  /\ Len(emitted[1].rows) > BATCH
  /\ emitted[2].stored > 0

\* The rows the runs built. A row's chunk <<rel, k, b>> names block b of
\* section k of file rel.
EmittedRows == UNION {Range(emitted[r].rows) : r \in DOMAIN emitted}

IsSplit(x) == x.metadata.parent_chunk_id # NoParent

SameSection(x, y) == x.chunk[1] = y.chunk[1] /\ x.chunk[2] = y.chunk[2]

\* C7: a split chunk's id is the hash of (source_file, section_path, i) with i
\* the block's index in its own section's split sequence, a non-split chunk's
\* id is the hash of (source_file, section_path), and the blocks of one split
\* section have pairwise distinct ids.
C7_SplitIdsBySectionIndex ==
  /\ \A x \in EmittedRows :
       x.id = sha1(x.metadata.source_file \o ":" \o x.metadata.section_path
                   \o (IF IsSplit(x) THEN ":" \o ToString(x.chunk[3] - 1) ELSE ""))
  /\ \A x, y \in EmittedRows :
       (IsSplit(x) /\ SameSection(x, y) /\ x.chunk # y.chunk) => x.id # y.id

\* Two blocks of one split section were given the same id, and a completed
\* first run left fewer rows than it had chunks.
C7_Witness ==
  /\ \E x, y \in EmittedRows :
       IsSplit(x) /\ SameSection(x, y) /\ x.chunk # y.chunk /\ x.id = y.id
  /\ Len(emitted) = 1 /\ emitted[1].pc = "done"
  /\ emitted[1].stored < Len(emitted[1].rows)

\* C22: a batch that fails (embedding, setDim or upsertMany throwing) leaves
\* the chunk records and the vectors as the batches committed before it left
\* them, and once a run has failed it writes no further batch.
C22_FailureKeepsCommittedBatches ==
  [][/\ (bk.pc = "running" /\ bk'.pc = "failed")
          => chunks' = chunks /\ vecs' = vecs
     /\ (bk.pc = "failed" /\ bk'.run = bk.run)
          => chunks' = chunks /\ vecs' = vecs /\ emitted' = emitted
     /\ \A r \in DOMAIN emitted :
          emitted[r].pc = "failed" => emitted'[r] = emitted[r]]_vars

\* The first run failed at the second batch of the second document, with the
\* first document's rows and the second document's first batch stored.
C22_Witness ==
  /\ bk.run = 1 /\ bk.pc = "failed"
  /\ bk.f = 2 /\ bk.i = BATCH
  /\ \E rid \in DOMAIN chunks : chunks[rid].path = "f1"
  /\ \E rid \in DOMAIN chunks : chunks[rid].path = "f2"
  /\ DOMAIN vecs = DOMAIN chunks

-----------------------------------------------------------------------------
(* chunkMarkdownByMeaning: text is a sequence of one-character strings *)

Lower == {"a", "b", "x", "y"}
Upper == {"A", "B"}
Digits == {"0", "1"}
Alnum == Lower \cup Upper \cup Digits          \* \p{L}\p{N}
Space == {" ", "\t", "\n"}                      \* \s
\* the grave accent, which a string of this language cannot hold
BackTick == "grave"
Markers == {"*", "_", BackTick, "~"}
Chars == Alnum \cup Space \cup Markers
           \cup {"#", "/", ":", "-", "&", "!", "[", "]", "(", ")", ">", "|"}

toLowerCase(ch) ==
  CASE ch = "A" -> "a" [] ch = "B" -> "b" [] ch = "G" -> "g"
    [] ch = "K" -> "k" [] ch = "M" -> "m" [] ch = "R" -> "r"
    [] ch = "S" -> "s" [] OTHER -> ch

RECURSIVE StripLeft(_, _)
StripLeft(s, C) ==
  IF s # <<>> /\ Head(s) \in C THEN StripLeft(Tail(s), C) ELSE s

RECURSIVE StripRight(_, _)
StripRight(s, C) ==
  IF s # <<>> /\ s[Len(s)] \in C
  THEN StripRight(SubSeq(s, 1, Len(s) - 1), C) ELSE s

\* s without its characters in C
RECURSIVE Without(_, _)
Without(s, C) ==
  IF s = <<>> THEN <<>>
  ELSE IF Head(s) \in C THEN Without(Tail(s), C)
  ELSE <<Head(s)>> \o Without(Tail(s), C)

\* s with every maximal run of characters of C replaced by rep
RECURSIVE SquashRuns(_, _, _)
SquashRuns(s, C, rep) ==
  IF s = <<>> THEN <<>>
  ELSE IF Head(s) \in C THEN rep \o SquashRuns(StripLeft(s, C), C, rep)
  ELSE <<Head(s)>> \o SquashRuns(Tail(s), C, rep)

\* .replace(/!?\[.*?\]\(.*?\)/g, m => the text between "[" and "](")
RECURSIVE resolveLinks(_)
resolveLinks(s) ==
  LET closes(i) == {j \in (i + 1)..(Len(s) - 1) :
                      /\ s[j] = "]" /\ s[j + 1] = "("
                      /\ \E k \in (j + 2)..Len(s) : s[k] = ")"}
      opens == {i \in 1..Len(s) : s[i] = "[" /\ closes(i) # {}}
  IN  IF opens = {} THEN s
      ELSE
        LET i == CHOOSE a \in opens : \A b \in opens : a <= b
            j == CHOOSE a \in closes(i) : \A b \in closes(i) : a <= b
            ends == {k \in (j + 2)..Len(s) : s[k] = ")"}
            k == CHOOSE a \in ends : \A b \in ends : a <= b
            from == IF i > 1 /\ s[i - 1] = "!" THEN i - 1 ELSE i
        IN  SubSeq(s, 1, from - 1) \o SubSeq(s, i + 1, j - 1)
              \o resolveLinks(SubSeq(s, k + 1, Len(s)))

slugify(raw) ==
  LET s1 == StripRight(StripLeft(raw, Space), Space)            \* .trim()
      s2 == Without(s1, Markers)                                \* emphasis marks
      s3 == resolveLinks(s2)
      s4 == StripLeft(s3, Chars \ Alnum)                        \* ^[^\p{L}\p{N}]+
      s5 == Without(s4, Chars \ (Alnum \cup Space \cup {"/", ":", "-"}))
      s6 == [i \in DOMAIN s5 |-> toLowerCase(s5[i])]
      s7 == SquashRuns(s6, Space, <<"-">>)                      \* \s+ -> "-"
      s8 == SquashRuns(s7, {"-"}, <<"-">>)                      \* -+ -> "-"
      s9 == StripRight(StripLeft(s8, {"-", "/"}), {"-", "/"})   \* ^[-/]+|[-/]+$
  IN  IF s9 = <<>> THEN <<"s", "e", "c", "t", "i", "o", "n">> ELSE s9

\* .replace(/\s+$/g, "").replace(/^\s+/g, "").replace(/\n{3,}/g, "\n\n")
RECURSIVE squashNewlines(_)
squashNewlines(s) ==
  IF s = <<>> THEN <<>>
  ELSE IF Head(s) = "\n"
  THEN LET rest == StripLeft(s, {"\n"})
           n    == Len(s) - Len(rest)
       IN  (IF n >= 3 THEN <<"\n", "\n">> ELSE SubSeq(s, 1, n)) \o squashNewlines(rest)
  ELSE <<Head(s)>> \o squashNewlines(Tail(s))

normalizeBlock(s) == squashNewlines(StripLeft(StripRight(s, Space), Space))

\* A join that keeps the last line only.
joinLast(lines) == IF lines = <<>> THEN <<>> ELSE lines[Len(lines)]

\* lines.join("\n")
RECURSIVE join(_)
join(lines) ==
  IF lines = <<>> THEN <<>>
  ELSE IF Len(lines) = 1 THEN lines[1]
  ELSE lines[1] \o <<"\n">> \o join(Tail(lines))

\* /^\s*(three grave accents)/
isFence(line) ==
  LET t == StripLeft(line, Space)
  IN  Len(t) >= 3 /\ t[1] = BackTick /\ t[2] = BackTick /\ t[3] = BackTick

\* /^(#{1,6})\s+(.*)$/ : [match, hashes, title]
isHeading(line) ==
  LET rest == StripLeft(line, {"#"})
      n    == Len(line) - Len(rest)
  IN  IF n >= 1 /\ n <= 6 /\ rest # <<>> /\ Head(rest) \in Space
      THEN [match |-> TRUE, hashes |-> n, title |-> StripLeft(rest, Space)]
      ELSE [match |-> FALSE, hashes |-> 0, title |-> <<>>]

Has(frame) == frame # NoFrame

Undefined == <<"undefined">>

\* A path that starts from the first-level heading whenever there is one.
currentPathH1First(cur) ==
  IF Has(cur.h1) /\ Has(cur.h3) THEN cur.h1.slug \o <<"/">> \o cur.h3.slug
  ELSE IF Has(cur.h2) /\ Has(cur.h3) THEN cur.h2.slug \o <<"/">> \o cur.h3.slug
  ELSE IF Has(cur.h2) THEN cur.h2.slug
  ELSE IF Has(cur.h3) THEN cur.h3.slug
  ELSE IF Has(cur.h1) THEN cur.h1.slug
  ELSE <<"i", "n", "t", "r", "o">>

currentPath(cur) ==
  IF Has(cur.h2) /\ Has(cur.h3) THEN cur.h2.slug \o <<"/">> \o cur.h3.slug
  ELSE IF Has(cur.h3) /\ Has(cur.h1) THEN cur.h1.slug \o <<"/">> \o cur.h3.slug
  ELSE IF Has(cur.h2) THEN cur.h2.slug
  ELSE IF Has(cur.h3) THEN cur.h3.slug
  ELSE IF Has(cur.h1) THEN cur.h1.slug
  ELSE <<"i", "n", "t", "r", "o">>

currentTitle(cur) ==
  IF Has(cur.h3) THEN cur.h3.title
  ELSE IF Has(cur.h2) THEN cur.h2.title
  ELSE IF Has(cur.h1) THEN cur.h1.title
  ELSE Undefined

currentParent(cur) ==
  IF Has(cur.h3) /\ Has(cur.h2) THEN cur.h2.title
  ELSE IF Has(cur.h2) /\ Has(cur.h1) THEN cur.h1.title
  ELSE Undefined

\* flush(): the sections after it (sectionBuf is emptied by the caller)
flush(secs, buf, cur) ==
  LET text == normalizeBlock(join(buf))
  IN  IF StripRight(StripLeft(text, Space), Space) = <<>> THEN secs
      ELSE Append(secs, [path |-> currentPath(cur), text |-> text,
                         title |-> currentTitle(cur),
                         parent |-> currentParent(cur)])

\* A context in which a second-level heading leaves the third level as it was.
headingKeepsH3(cur, hashes, title) ==
  LET level == Min(3, hashes)
      frame == [level |-> level, slug |-> slugify(title), title |-> title]
  IN  IF level = 1 THEN [h1 |-> frame, h2 |-> NoFrame, h3 |-> NoFrame]
      ELSE IF level = 2 THEN [cur EXCEPT !.h2 = frame]
      ELSE [cur EXCEPT !.h3 = frame]

\* The context after a heading of that many marks.
heading(cur, hashes, title) ==
  LET level == Min(3, hashes)
      frame == [level |-> level, slug |-> slugify(title), title |-> title]
  IN  IF level = 1 THEN [h1 |-> frame, h2 |-> NoFrame, h3 |-> NoFrame]
      ELSE IF level = 2 THEN [cur EXCEPT !.h2 = frame, !.h3 = NoFrame]
      ELSE [cur EXCEPT !.h3 = frame]

-----------------------------------------------------------------------------
(* The sectionizer specification: one document, read line by line *)

HashMarks(n) == [i \in 1..n |-> "#"]

\* The lines a document is made of.
Lines == {
  HashMarks(1) \o <<" ", "A">>,                                \* # A
  HashMarks(2) \o <<" ", "a">>,                                \* ## a
  HashMarks(3) \o <<" ", "b">>,                                \* ### b
  HashMarks(2) \o <<" ", "a", "/", "b">>,                      \* ## a/b
  HashMarks(4) \o <<" ", "*", "B", "*", " ">>,                 \* #### *B*
  HashMarks(2) \o <<" ", "&", " ", "[", "a", "]", "(", "x", ")">>,  \* ## & [a](x)
  <<"x">>,
  <<" ", "y">>,
  <<>>,
  <<BackTick, BackTick, BackTick>> }

SectInit ==
  /\ doc = <<>>
  /\ current = [h1 |-> NoFrame, h2 |-> NoFrame, h3 |-> NoFrame]
  /\ sectionBuf = <<>>
  /\ sections = <<>>
  /\ inFence = FALSE
  /\ scPc = "lines"

\* One pass of the loop over the lines.
ReadLine ==
  /\ scPc = "lines"
  /\ Len(doc) < MaxLines
  /\ \E line \in Lines :
       /\ doc' = Append(doc, line)
       /\ IF isFence(line)
          THEN /\ inFence' = ~inFence
               /\ UNCHANGED <<current, sectionBuf, sections>>
          ELSE IF inFence
          THEN UNCHANGED <<current, sectionBuf, sections, inFence>>
          ELSE \E mh \in {isHeading(line)} :
                 IF mh.match
                 THEN /\ sections' = flush(sections, sectionBuf, current)
                      /\ sectionBuf' = <<>>
                      /\ current' = heading(current, mh.hashes, mh.title)
                      /\ UNCHANGED inFence
                 ELSE /\ sectionBuf' = Append(sectionBuf, line)
                      /\ UNCHANGED <<current, sections, inFence>>
  /\ UNCHANGED scPc
  /\ UNCHANGED <<storeVars, bakeVars, searchVars, splitVars, embVars, agentVars>>

\* The end of the lines: the last flush.
EndOfLines ==
  /\ scPc = "lines"
  /\ sections' = flush(sections, sectionBuf, current)
  /\ sectionBuf' = <<>>
  /\ scPc' = "done"
  /\ UNCHANGED <<doc, current, inFence>>
  /\ UNCHANGED <<storeVars, bakeVars, searchVars, splitVars, embVars, agentVars>>

InitSect == StoreInit /\ BakeIdle /\ SectInit /\ SearchIdle /\ SplitIdle
  /\ EmbedIdle /\ AgentIdle

NextSect == ReadLine \/ EndOfLines

SpecSect == InitSect /\ [][NextSect]_vars

-----------------------------------------------------------------------------
(* Properties of the sectionizer (checked under SpecSect) *)

\* C8: within one document no two emitted sections have the same path.
C8_SectionPathsDistinct ==
  \A i, j \in DOMAIN sections :
    i # j => sections[i].path # sections[j].path

\* A document read to its end has two sections of one path under headings of
\* different titles.
C8_Witness ==
  /\ scPc = "done"
  /\ \E i, j \in DOMAIN sections :
       /\ i < j
       /\ sections[i].path = sections[j].path
       /\ sections[i].title # sections[j].title

-----------------------------------------------------------------------------
(* search: validation, the query's embedding, one nearest-neighbour read,
   filters, relevance scores, sort, cut.
   Scores are fixed-point numbers in units of 0.0001, importance is in
   hundredths and distance in tenths. *)

\* a property that is not there (undefined)
Missing == "<undefined>"

lower(s) == [i \in DOMAIN s |-> toLowerCase(s[i])]

\* s.includes(t)
includes(s, t) ==
  \/ t = <<>>
  \/ \E i \in 1..(Len(s) - Len(t) + 1) :
       s[i] = t[1] /\ SubSeq(s, i, i + Len(t) - 1) = t

\* s.split(/\s+/)
RECURSIVE split(_)
split(s) ==
  LET at == {i \in DOMAIN s : s[i] \in Space}
  IN  IF at = {} THEN <<s>>
      ELSE LET i == CHOOSE a \in at : \A b \in at : a <= b
           IN  <<SubSeq(s, 1, i - 1)>>
                 \o split(StripLeft(SubSeq(s, i, Len(s)), Space))

RECURSIVE Sum(_, _)
Sum(f, seq) == IF seq = <<>> THEN 0 ELSE f[Head(seq)] + Sum(f, Tail(seq))

\* JSON.parse of a stored metadata text: the object it holds, or a throw
JSONparse(text) ==
  IF text.kind = "object" THEN [threw |-> FALSE, value |-> text]
  ELSE [threw |-> TRUE, value |-> Missing]

\* {}
EmptyObject ==
  [kind |-> "object", universe |-> Missing, species |-> Missing,
   subspecies |-> Missing, content_type |-> Missing, importance_score |-> 0,
   section_title |-> Undefined, section_path |-> Undefined,
   source_file |-> Undefined, entities |-> {}, concepts |-> {}]

\* JSON.parse(hit.metadata) without the test for a column that is not there.
parseMetadataUnguarded(hit) == JSONparse(hit.metadata)

\* hit.metadata ? JSON.parse(hit.metadata) : {}
parseMetadata(hit) ==
  IF hit.metadata.kind = "absent" THEN [threw |-> FALSE, value |-> EmptyObject]
  ELSE JSONparse(hit.metadata)

\* x?.toLowerCase() === term, x?.toLowerCase().includes(term)
isText(x, term) == x # Undefined /\ lower(x) = term
hasText(x, term) == x # Undefined /\ includes(lower(x), term)

\* the bonus of one query term (lines 28-42)
termBoost(metadata, term) ==
  LET entities == {lower(e) : e \in metadata.entities}
      concepts == {lower(c) : c \in metadata.concepts}
  IN  (IF term \in entities THEN 4000
       ELSE IF \E e \in entities : includes(e, term) THEN 2000 ELSE 0)
    + (IF term \in concepts THEN 3500
       ELSE IF \E c \in concepts : includes(c, term) THEN 1500 ELSE 0)
    + (IF isText(metadata.section_title, term) THEN 5000
       ELSE IF hasText(metadata.section_title, term) THEN 3000 ELSE 0)
    + (IF hasText(metadata.section_path, term) THEN 2500 ELSE 0)
    + (IF hasText(metadata.source_file, term) THEN 2000 ELSE 0)

\* the bonus of the whole query (lines 46-49)
phraseBoost(metadata, queryPhrase) ==
    (IF hasText(metadata.section_title, queryPhrase) THEN 4000 ELSE 0)
  + (IF \E e \in metadata.entities : includes(lower(e), queryPhrase)
     THEN 3000 ELSE 0)
  + (IF \E c \in metadata.concepts : includes(lower(c), queryPhrase)
     THEN 2500 ELSE 0)

\* metadata.importance_score || 0.5
importanceOrHalf(metadata) ==
  IF metadata.importance_score = 0 THEN 50 ELSE metadata.importance_score

contentTypeBoost(metadata) ==
  IF metadata.content_type = "quote" THEN 1000
  ELSE IF metadata.content_type = "list" THEN 500
  ELSE IF metadata.content_type = "mixed" THEN 300
  ELSE 0

\* Math.max(0.001, Math.min(2.0, score))
clamp(score) == Max({10, Min(20000, score)})

calculateRelevanceScore(hit, query) ==
  LET p == parseMetadata(hit)
  IN  IF p.threw THEN clamp(hit.score)
      ELSE
        LET metadata    == p.value
            queryPhrase == lower(query)
            queryTerms  == SelectSeq(split(queryPhrase), LAMBDA t : Len(t) > 2)
            lowerText   == lower(hit.chunk)
            termMatchBoost ==
              Sum([t \in Range(queryTerms) |-> termBoost(metadata, t)], queryTerms)
                + phraseBoost(metadata, queryPhrase)
            importanceBoost == importanceOrHalf(metadata) * 10
            textMatchBoost ==
              Sum([t \in Range(queryTerms) |->
                     IF includes(lowerText, t) THEN 1000 ELSE 0], queryTerms)
                + (IF includes(lowerText, queryPhrase) THEN 1500 ELSE 0)
            lengthPenalty ==
              IF Len(hit.chunk) < 100 /\ importanceOrHalf(metadata) < 70
              THEN 0 - 1000 ELSE 0
        IN  clamp(hit.score + termMatchBoost + importanceBoost
                    + contentTypeBoost(metadata) + textMatchBoost + lengthPenalty)

\* a filter value that is truthy
truthy(v) == v # Missing /\ v # ""

\* Object.keys(filters).length === 0
noKeys(filters) ==
  /\ filters.universe = Missing /\ filters.species = Missing
  /\ filters.subspecies = Missing /\ filters.content_type = Missing
  /\ filters.min_importance = -1

\* A filter callback that does not look at the content type.
keepsIgnoringContentType(hit, filters) ==
  LET p == parseMetadata(hit)
      metadata == p.value
  IN  IF p.threw THEN TRUE
      ELSE IF truthy(filters.universe) /\ metadata.universe # filters.universe
      THEN FALSE
      ELSE IF truthy(filters.species) /\ metadata.species # filters.species
      THEN FALSE
      ELSE IF truthy(filters.subspecies) /\ metadata.subspecies # filters.subspecies
      THEN FALSE
      ELSE IF filters.min_importance > 0
                /\ metadata.importance_score < filters.min_importance
      THEN FALSE
      ELSE TRUE

\* A filter callback that drops a hit whose metadata does not parse.
keepsParsedOnly(hit, filters) ==
  LET p == parseMetadata(hit)
      metadata == p.value
  IN  IF p.threw THEN FALSE
      ELSE IF truthy(filters.universe) /\ metadata.universe # filters.universe
      THEN FALSE
      ELSE IF truthy(filters.species) /\ metadata.species # filters.species
      THEN FALSE
      ELSE IF truthy(filters.subspecies) /\ metadata.subspecies # filters.subspecies
      THEN FALSE
      ELSE IF truthy(filters.content_type)
                /\ metadata.content_type # filters.content_type
      THEN FALSE
      ELSE IF filters.min_importance > 0
                /\ metadata.importance_score < filters.min_importance
      THEN FALSE
      ELSE TRUE

\* the callback of hits.filter (lines 91-110)
keeps(hit, filters) ==
  LET p == parseMetadata(hit)
      metadata == p.value
  IN  IF p.threw THEN TRUE
      ELSE IF truthy(filters.universe) /\ metadata.universe # filters.universe
      THEN FALSE
      ELSE IF truthy(filters.species) /\ metadata.species # filters.species
      THEN FALSE
      ELSE IF truthy(filters.subspecies) /\ metadata.subspecies # filters.subspecies
      THEN FALSE
      ELSE IF truthy(filters.content_type)
                /\ metadata.content_type # filters.content_type
      THEN FALSE
      ELSE IF filters.min_importance > 0
                /\ metadata.importance_score < filters.min_importance
      THEN FALSE
      ELSE TRUE

applyFilters(hits, filters) ==
  IF noKeys(filters) THEN hits
  ELSE SelectSeq(hits, LAMBDA hit : keeps(hit, filters))

\* hits left in the order they came in
sortKeepsOrder(hits) == hits

\* where Array.prototype.sort (stable) puts h among hits already in order
RECURSIVE insertByRelevance(_, _)
insertByRelevance(sorted, h) ==
  IF sorted = <<>> THEN <<h>>
  ELSE IF Head(sorted).relevance >= h.relevance
  THEN <<Head(sorted)>> \o insertByRelevance(Tail(sorted), h)
  ELSE <<h>> \o sorted

RECURSIVE sortDescending(_)
sortDescending(hits) ==
  IF hits = <<>> THEN <<>>
  ELSE insertByRelevance(sortDescending(SubSeq(hits, 1, Len(hits) - 1)),
                         hits[Len(hits)])

\* hits.sort((a, b) => b.relevance_score - a.relevance_score)
sort(hits) == sortDescending(hits)

\* x.toFixed(3), in thousandths
toFixed3(x) == (x + 5) \div 10

\* A read that gives every stored row, whatever k is.
searchKnnAll(rows, k) ==
  [i \in DOMAIN rows |->
     [id |-> rows[i].id, path |-> rows[i].path, chunk |-> rows[i].chunk,
      metadata |-> rows[i].metadata, distance |-> rows[i].distance,
      score |-> 100000 \div (10 + rows[i].distance)]]

\* searchKnn(query, k): the k nearest rows, each with score 1/(1+distance)
searchKnn(rows, k) ==
  [i \in 1..Min(k, Len(rows)) |->
     [id |-> rows[i].id, path |-> rows[i].path, chunk |-> rows[i].chunk,
      metadata |-> rows[i].metadata, distance |-> rows[i].distance,
      score |-> 100000 \div (10 + rows[i].distance)]]

\* SearchOptionsSchema.parse: q.min(1), k a positive integer
valid(opts) == Len(opts.q) >= 1 /\ opts.k >= 1

\* Calls made with the embedding asked for before the options are parsed.
callsEmbedFirst(opts, embedOk) ==
  IF ~embedOk THEN <<"embedOne">>
  ELSE IF ~valid(opts) THEN <<"embedOne", "parse">>
  ELSE <<"embedOne", "parse", "open", "getDim", "searchKnn">>

\* The calls search makes, in order, up to the one that throws: the schema's
\* parse, embedOne, new VectorStore, getDim, searchKnn (lines 114-124).
calls(opts, embedOk) ==
  IF ~valid(opts) THEN <<"parse">>
  ELSE IF ~embedOk THEN <<"parse", "embedOne">>
  ELSE <<"parse", "embedOne", "open", "getDim", "searchKnn">>

search(rows, opts, embedOk) ==
  IF ~valid(opts)
  THEN [pc |-> "rejected", opts |-> opts, calls |-> calls(opts, embedOk),
        reads |-> <<>>, passed |-> 0, kept |-> <<>>, hits |-> <<>>]
  ELSE IF ~embedOk
  THEN [pc |-> "failed", opts |-> opts, calls |-> calls(opts, embedOk),
        reads |-> <<>>, passed |-> 0, kept |-> <<>>, hits |-> <<>>]
  ELSE
    LET searchK  == Max({opts.k * 2, 20})
        found    == searchKnn(rows, searchK)
        filtered == IF opts.filters.given THEN applyFilters(found, opts.filters)
                    ELSE found
        scored   == [i \in DOMAIN filtered |->
                       [id |-> filtered[i].id,
                        distance |-> filtered[i].distance,
                        metadata |-> filtered[i].metadata,
                        relevance |-> calculateRelevanceScore(filtered[i], opts.q)]]
        sorted   == sort(scored)
        top      == SubSeq(sorted, 1, Min(opts.k, Len(sorted)))
    IN  [pc |-> "done", opts |-> opts, calls |-> calls(opts, embedOk),
         reads |-> <<searchK>>,
         passed |-> Len(filtered),
         kept |-> [i \in DOMAIN filtered |-> filtered[i].id],
         hits |-> [i \in DOMAIN top |->
                     [id |-> top[i].id,
                      distance |-> top[i].distance,
                      metadata |-> top[i].metadata,
                      relevance |-> top[i].relevance,
                      relevance_score |-> toFixed3(top[i].relevance)]]]

-----------------------------------------------------------------------------
(* The search specification: searches over one stored corpus *)

ShortChunk == <<"a", "b", "x">>
LongChunk == [i \in 1..100 |-> "y"]

Meta(universe, species, content_type, importance, title, entities, concepts) ==
  [kind |-> "object", universe |-> universe, species |-> species,
   subspecies |-> Missing, content_type |-> content_type,
   importance_score |-> importance, section_title |-> title,
   section_path |-> <<"b">>, source_file |-> <<"y">>,
   entities |-> entities, concepts |-> concepts]

\* The rows a store may hold: the text and the metadata column.
RowKinds == {
  [chunk |-> ShortChunk,
   metadata |-> Meta("u1", "s1", "quote", 90, <<"A", "b", "x">>, {<<"A", "b", "x">>}, {})],
  [chunk |-> LongChunk,
   metadata |-> Meta("u1", Missing, "quote", 60, <<"y", "a", "b", "x">>, {}, {})],
  [chunk |-> LongChunk,
   metadata |-> Meta("u1", "s1", "list", 50, Undefined, {}, {<<"x", "a", "b", "x">>})],
  [chunk |-> ShortChunk,
   metadata |-> Meta("u2", "s1", "narrative", 10, <<"B">>, {}, {})],
  [chunk |-> ShortChunk, metadata |-> [kind |-> "absent"]],
  [chunk |-> LongChunk, metadata |-> [kind |-> "unparsable"]] }

Distances == {0, 5}

\* Rows at distance 0 that fill the nearest places of a large store.
Filler ==
  [chunk |-> ShortChunk,
   metadata |-> Meta("u2", "s1", "narrative", 10, <<"B">>, {}, {})]

FillerCounts == {20, 22}

\* The stored rows in the order of their distance to the query vector: up to
\* MaxHits rows of any kind, or a run of filler rows and one row after them.
Corpora ==
  {[i \in DOMAIN c |->
      [id |-> i, path |-> <<"y">>, chunk |-> c[i][1].chunk,
       metadata |-> c[i][1].metadata, distance |-> c[i][2]]] :
     c \in {d \in SeqsUpTo(RowKinds \X Distances, MaxHits) :
              \A i, j \in DOMAIN d : i < j => d[i][2] <= d[j][2]}
            \cup {[i \in 1..(n + 1) |-> IF i <= n THEN <<Filler, 0>> ELSE last1] :
                    n \in FillerCounts, last1 \in RowKinds \X Distances}}

Queries == {<<>>, <<"A", "b", "x">>, <<"a", "b", "x", " ", "y">>}

Ks == {0, 1, 2, 11}

Filter(universe, content_type, min_importance) ==
  [given |-> TRUE, universe |-> universe, species |-> Missing,
   subspecies |-> Missing, content_type |-> content_type,
   min_importance |-> min_importance]

FilterSets == {
  [given |-> FALSE, universe |-> Missing, species |-> Missing,
   subspecies |-> Missing, content_type |-> Missing, min_importance |-> -1],
  Filter(Missing, Missing, -1),
  Filter("u1", Missing, -1),
  Filter("", "quote", 0),
  Filter(Missing, "quote", 70),
  Filter(Missing, Missing, 50),
  [Filter("u1", Missing, -1) EXCEPT !.species = "s1"] }

SearchInit ==
  /\ corpus \in Corpora
  /\ srch = NoSearch

\* One run of the search command: a process that searches once and exits.
Search ==
  /\ srch.pc = "idle"
  /\ \E q \in Queries, k \in Ks, filters \in FilterSets, embedOk \in BOOLEAN :
       srch' = search(corpus, [q |-> q, k |-> k, filters |-> filters], embedOk)
  /\ UNCHANGED corpus
  /\ UNCHANGED <<storeVars, bakeVars, sectVars, splitVars, embVars, agentVars>>

InitSearch == StoreInit /\ BakeIdle /\ SectIdle /\ SearchInit /\ SplitIdle
  /\ EmbedIdle /\ AgentIdle

NextSearch == Search

SpecSearch == InitSearch /\ [][NextSearch]_vars

-----------------------------------------------------------------------------
(* Properties of search (checked under SpecSearch) *)

\* C9: the hits a search returns are in non-increasing order of
\* relevance_score, and there are at most k of them.
C9_SortedAndAtMostK ==
  srch.pc = "done" =>
    /\ Len(srch.hits) <= srch.opts.k
    /\ \A i, j \in DOMAIN srch.hits :
         i < j => /\ srch.hits[i].relevance >= srch.hits[j].relevance
                  /\ srch.hits[i].relevance_score >= srch.hits[j].relevance_score

\* A search cut to k hits returns first a hit that is farther from the query
\* than the next one and scores strictly higher.
C9_Witness ==
  /\ srch.pc = "done"
  /\ srch.passed > srch.opts.k
  /\ Len(srch.hits) = 2
  /\ srch.hits[1].distance > srch.hits[2].distance
  /\ srch.hits[1].relevance_score > srch.hits[2].relevance_score

ActiveFilters(filters) ==
  \/ truthy(filters.universe) \/ truthy(filters.species)
  \/ truthy(filters.subspecies) \/ truthy(filters.content_type)
  \/ filters.min_importance > 0

Satisfies(metadata, filters) ==
  /\ truthy(filters.universe) => metadata.universe = filters.universe
  /\ truthy(filters.species) => metadata.species = filters.species
  /\ truthy(filters.subspecies) => metadata.subspecies = filters.subspecies
  /\ truthy(filters.content_type) => metadata.content_type = filters.content_type
  /\ filters.min_importance > 0
       => metadata.importance_score >= filters.min_importance

\* C10: when filters are given, every returned hit whose metadata parses
\* satisfies every active filter (a hit without metadata is returned only when
\* no filter is active).
C10_ReturnedHitsSatisfyFilters ==
  (srch.pc = "done" /\ srch.opts.filters.given) =>
    \A i \in DOMAIN srch.hits :
      /\ srch.hits[i].metadata.kind = "object"
           => Satisfies(srch.hits[i].metadata, srch.opts.filters)
      /\ srch.hits[i].metadata.kind = "absent"
           => ~ActiveFilters(srch.opts.filters)

\* A search with a content type and a minimum importance drops a stored row
\* and returns a hit with parsed metadata and one whose metadata does not parse.
C10_Witness ==
  /\ srch.pc = "done"
  /\ srch.opts.filters.given
  /\ truthy(srch.opts.filters.content_type)
  /\ srch.opts.filters.min_importance > 0
  /\ srch.passed < Len(corpus)
  /\ \E i, j \in DOMAIN srch.hits :
       /\ srch.hits[i].metadata.kind = "object"
       /\ srch.hits[j].metadata.kind = "unparsable"

\* What the filters ask of a stored metadata column.
Passes(metadata, filters) ==
  IF metadata.kind = "object" THEN Satisfies(metadata, filters)
  ELSE IF metadata.kind = "absent" THEN ~ActiveFilters(filters)
  ELSE TRUE

\* C11: a search makes one nearest-neighbour read, of k' = max(2k, 20) rows,
\* and returns exactly the min(k, n) highest-scored of the n rows among those
\* k' that pass the filters; no row beyond the k' nearest is returned.
C11_TopOfTheNearest ==
  srch.pc = "done" =>
    LET k    == srch.opts.k
        kk   == IF 2 * k > 20 THEN 2 * k ELSE 20
        near == 1..(IF kk < Len(corpus) THEN kk ELSE Len(corpus))
        cand == {i \in near : srch.opts.filters.given
                                => Passes(corpus[i].metadata, srch.opts.filters)}
        n    == Cardinality(cand)
        ids  == {srch.hits[j].id : j \in DOMAIN srch.hits}
        rel(i) == calculateRelevanceScore(
                    [chunk |-> corpus[i].chunk, metadata |-> corpus[i].metadata,
                     score |-> 100000 \div (10 + corpus[i].distance)],
                    srch.opts.q)
    IN  /\ srch.reads = <<kk>>
        /\ Len(srch.hits) = (IF k < n THEN k ELSE n)
        /\ Cardinality(ids) = Len(srch.hits)
        /\ ids \subseteq cand
        /\ \A j \in DOMAIN srch.hits : srch.hits[j].relevance = rel(srch.hits[j].id)
        /\ \A c \in cand \ ids :
             LET r == rel(c)
             IN  \A j \in DOMAIN srch.hits : srch.hits[j].relevance >= r

\* A search returns fewer than k hits although a row beyond the k' nearest
\* passes the filters.
C11_Witness ==
  /\ srch.pc = "done"
  /\ srch.opts.filters.given
  /\ ActiveFilters(srch.opts.filters)
  /\ Len(srch.hits) < srch.opts.k
  /\ \E i \in DOMAIN corpus :
       /\ i > srch.reads[1]
       /\ corpus[i].metadata.kind = "object"
       /\ Satisfies(corpus[i].metadata, srch.opts.filters)

Before(log, a, b) ==
  \A j \in DOMAIN log : log[j] = b => \E i \in 1..(j - 1) : log[i] = a

\* C12: a search with an empty query or k <= 0 is rejected with neither an
\* embedding call nor a store open or read; in an accepted search the
\* validation precedes the embedding call, which precedes the store read.
C12_ValidationFirst ==
  srch.pc # "idle" =>
    /\ (Len(srch.opts.q) = 0 \/ srch.opts.k <= 0)
         => /\ srch.pc = "rejected"
            /\ Range(srch.calls) \cap {"embedOne", "open", "getDim", "searchKnn"} = {}
            /\ srch.reads = <<>>
    /\ srch.pc # "rejected"
         => /\ srch.calls[1] = "parse"
            /\ Before(srch.calls, "parse", "embedOne")
            /\ Before(srch.calls, "embedOne", "open")
            /\ Before(srch.calls, "embedOne", "getDim")
            /\ Before(srch.calls, "embedOne", "searchKnn")
            /\ srch.pc = "done" => "searchKnn" \in Range(srch.calls)

\* A search with k = 0 and a query that is not empty is rejected.
C12_Witness ==
  /\ srch.pc = "rejected"
  /\ srch.opts.k = 0
  /\ Len(srch.opts.q) > 0

\* C13: a hit whose metadata does not parse is never dropped by the filters,
\* and its relevance is its base similarity 1/(1+distance), clamped only.
C13_UnparsableKeptAtBaseScore ==
  srch.pc = "done" =>
    /\ \A i \in 1..(IF srch.reads[1] < Len(corpus) THEN srch.reads[1] ELSE Len(corpus)) :
         corpus[i].metadata.kind = "unparsable" => i \in Range(srch.kept)
    /\ \A j \in DOMAIN srch.hits :
         srch.hits[j].metadata.kind = "unparsable"
           => LET base == 100000 \div (10 + srch.hits[j].distance)
              IN  srch.hits[j].relevance =
                    (IF base < 10 THEN 10 ELSE IF base > 20000 THEN 20000 ELSE base)

\* Under filters that drop another row, a hit whose metadata does not parse
\* and whose text holds the query is returned at its base similarity.
C13_Witness ==
  /\ srch.pc = "done"
  /\ srch.opts.filters.given
  /\ ActiveFilters(srch.opts.filters)
  /\ srch.passed < Len(corpus)
  /\ \E j \in DOMAIN srch.hits :
       /\ srch.hits[j].metadata.kind = "unparsable"
       /\ srch.hits[j].relevance = 100000 \div (10 + srch.hits[j].distance)

-----------------------------------------------------------------------------
(* estimateTokens, splitSectionBySize and the chunks of one section.
   Text is a sequence of one-character strings. *)

overlapRatio == 15    \* DEFAULTS.overlapRatio, in hundredths

\* parent_chunk_id: null
Null == <<"null">>

\* s.split(sep) for a one-character separator
RECURSIVE splitAt(_, _)
splitAt(s, sep) ==
  LET at == {i \in DOMAIN s : s[i] = sep}
  IN  IF at = {} THEN <<s>>
      ELSE LET i == CHOOSE a \in at : \A b \in at : a <= b
           IN  <<SubSeq(s, 1, i - 1)>> \o splitAt(SubSeq(s, i + 1, Len(s)), sep)

\* text.split(/\n{2,}/)
RECURSIVE splitParas(_)
splitParas(s) ==
  LET at == {i \in 1..(Len(s) - 1) : s[i] = "\n" /\ s[i + 1] = "\n"}
  IN  IF at = {} THEN <<s>>
      ELSE LET i == CHOOSE a \in at : \A b \in at : a <= b
           IN  <<SubSeq(s, 1, i - 1)>>
                 \o splitParas(StripLeft(SubSeq(s, i, Len(s)), {"\n"}))

\* buf.join("\n\n")
RECURSIVE join2(_)
join2(buf) ==
  IF buf = <<>> THEN <<>>
  ELSE IF Len(buf) = 1 THEN buf[1]
  ELSE buf[1] \o <<"\n", "\n">> \o join2(Tail(buf))

\* a line that /^(\s*[-*+]|\s*\d+\.)\s+/m matches; the end of a line that is
\* not the last one counts as the white space after the marker
isListItem(line, isLast) ==
  LET t == StripLeft(line, Space)
      u == StripLeft(t, Digits)
      spaceAt(v, i) == IF i <= Len(v) THEN v[i] \in Space ELSE ~isLast
  IN  \/ t # <<>> /\ Head(t) \in {"-", "*", "+"} /\ spaceAt(t, 2)
      \/ Len(u) < Len(t) /\ u # <<>> /\ Head(u) = "." /\ spaceAt(u, 2)

estimateTokens(s) ==
  LET approx == (Len(s) + 3) \div 4
      pipes  == Cardinality({i \in DOMAIN s : s[i] = "|"})
      lines  == splitAt(s, "\n")
      items  == Cardinality({i \in DOMAIN lines : isListItem(lines[i], i = Len(lines))})
  IN  Max({1, (approx * (100 + 3 * pipes + 5 * items)) \div 100})

\* An overlap of the last third of the block.
overlapThird(committed, ratio) ==
  LET overlapChars == Len(committed) \div 3
  IN  SubSeq(committed, Max({0, Len(committed) - overlapChars}) + 1, Len(committed))

\* committed.slice(Math.max(0, committed.length - overlapChars))
overlapOf(committed, ratio) ==
  LET overlapChars == (Len(committed) * ratio) \div 100
  IN  SubSeq(committed, Max({0, Len(committed) - overlapChars}) + 1, Len(committed))

\* commit(): the block is pushed with, beside its text, the overlap it
\* started with and the paragraphs pushed after it
commit(st) ==
  IF st.buf = <<>> THEN st
  ELSE [out |-> Append(st.out, [text |-> normalizeBlock(join2(st.buf)),
                                lap |-> st.lap, own |-> st.own]),
        buf |-> <<>>, tokens |-> 0, lap |-> <<>>, own |-> <<>>]

\* A pass that commits at a boundary and forgets the paragraph that met it.
splitStepDropsParagraph(st, p, budget) ==
  LET t == estimateTokens(p)
  IN  IF st.tokens > 0 /\ st.tokens + t > budget
      THEN commit(st)
      ELSE [st EXCEPT !.buf = Append(@, p), !.tokens = @ + t, !.own = Append(@, p)]

\* A pass whose test of the budget is a while: it commits again as long as
\* what the buffer holds and the paragraph do not fit together.
RECURSIVE drain(_, _, _)
drain(st, t, budget) ==
  IF st.tokens > 0 /\ st.tokens + t > budget
  THEN LET committed == normalizeBlock(join2(st.buf))
           c == commit(st)
           overlapText == overlapOf(committed, overlapRatio)
       IN  drain(IF Len(committed) > 0 /\ StripLeft(overlapText, Space) # <<>>
                 THEN [c EXCEPT !.buf = <<overlapText>>,
                                !.tokens = estimateTokens(overlapText),
                                !.lap = overlapText]
                 ELSE c,
                 t, budget)
  ELSE st

splitStepWhile(st, p, budget) ==
  LET t == estimateTokens(p)
  IN  [drain(st, t, budget) EXCEPT
         !.buf = Append(@, p), !.tokens = @ + t, !.own = Append(@, p)]

\* A pass that commits once the buffer alone is over the budget.
splitStepLateCommit(st, p, budget) ==
  LET t == estimateTokens(p)
      st1 ==
        IF st.tokens > budget
        THEN LET committed == normalizeBlock(join2(st.buf))
                 c == commit(st)
                 overlapText == overlapOf(committed, overlapRatio)
             IN  IF Len(committed) > 0 /\ StripLeft(overlapText, Space) # <<>>
                 THEN [c EXCEPT !.buf = <<overlapText>>,
                                !.tokens = estimateTokens(overlapText),
                                !.lap = overlapText]
                 ELSE c
        ELSE st
  IN  [st1 EXCEPT !.buf = Append(@, p), !.tokens = @ + t, !.own = Append(@, p)]

\* One pass of the loop over the paragraphs (lines 217-233).
splitStep(st, p, budget) ==
  LET t == estimateTokens(p)
      st1 ==
        IF st.tokens > 0 /\ st.tokens + t > budget
        THEN LET committed == normalizeBlock(join2(st.buf))
                 c == commit(st)
                 overlapText == overlapOf(committed, overlapRatio)
             IN  IF Len(committed) > 0 /\ StripLeft(overlapText, Space) # <<>>
                 THEN [c EXCEPT !.buf = <<overlapText>>,
                                !.tokens = estimateTokens(overlapText),
                                !.lap = overlapText]
                 ELSE c
        ELSE st
  IN  [st1 EXCEPT !.buf = Append(@, p), !.tokens = @ + t, !.own = Append(@, p)]

RECURSIVE splitLoop(_, _, _)
splitLoop(st, paras, budget) ==
  IF paras = <<>> THEN commit(st)
  ELSE splitLoop(splitStep(st, Head(paras), budget), Tail(paras), budget)

\* The blocks of splitSectionBySize with what each was made of.
splitBlocks(text, budget) ==
  splitLoop([out |-> <<>>, buf |-> <<>>, tokens |-> 0, lap |-> <<>>, own |-> <<>>],
            splitParas(text), budget).out

splitSectionBySize(text, budget) ==
  LET blocks == splitBlocks(text, budget)
  IN  [i \in DOMAIN blocks |-> blocks[i].text]

\* sec.title && !sec.text.includes(sec.title) ? title + "\n\n" + text : text
contextualText(sec) ==
  IF sec.title # Undefined /\ sec.title # <<>> /\ ~includes(sec.text, sec.title)
  THEN sec.title \o <<"\n", "\n">> \o sec.text
  ELSE sec.text

\* A parent id given to every chunk that comes out of the splitter.
parentIdAlways(parts, sourceFile, path) == sourceFile \o <<":">> \o path

\* parent_chunk_id of the chunks of a section the splitter was called on
parentId(parts, sourceFile, path) ==
  IF Len(parts) <= 1 THEN Null ELSE sourceFile \o <<":">> \o path

\* The chunks pushed for one section (lines 337-413).
chunksOfSection(sec, sourceFile, budget) ==
  LET est  == estimateTokens(sec.text)
      meta(parent) == [source_file |-> sourceFile, section_path |-> sec.path,
                       section_title |-> sec.title, parent_chunk_id |-> parent]
  IN  IF est <= budget
      THEN <<[text |-> contextualText(sec), meta |-> meta(Null)]>>
      ELSE LET parts == splitSectionBySize(contextualText(sec), budget)
           IN  IF Len(parts) <= 1
               THEN <<[text |-> contextualText(sec),
                       meta |-> meta(parentId(parts, sourceFile, sec.path))]>>
               ELSE [i \in DOMAIN parts |->
                       [text |-> parts[i],
                        meta |-> meta(parentId(parts, sourceFile, sec.path))]]

-----------------------------------------------------------------------------
(* The splitter specification: one section, one call *)

\* The paragraphs a section is made of.
Paragraphs == {
  <<"a", "a", "a", "a", "a", "a", "a", "a">>,
  <<"b">>,
  <<"a", "a", " ", "a", "a", " ", "a", "a", " ", "a", "a", " ", "a", "a", " ", "b">>,
  <<"-", " ", "a", "\n", "-", " ", "b">>,
  <<"|", "a", "|", "\n", " ", "x">> }

\* Sections as flush leaves them: normalised text of up to MaxParas paragraphs.
SectionTexts ==
  {normalizeBlock(join2(ps)) : ps \in SeqsUpTo(Paragraphs, MaxParas) \ {<<>>}}

Budgets == {3, 5}

SectionInputs ==
  [path : {<<"a">>}, title : {Undefined, <<"b">>}, text : SectionTexts,
   file : {<<"f">>}, budget : Budgets]

SplitInit ==
  /\ secIn \in SectionInputs
  /\ secOut = [pc |-> "idle"]

\* The body of the loop over the sections, for one section.
MakeChunks ==
  /\ secOut.pc = "idle"
  /\ secOut' = [pc |-> "done",
                chunks |-> chunksOfSection(secIn, secIn.file, secIn.budget),
                blocks |-> splitBlocks(contextualText(secIn), secIn.budget)]
  /\ UNCHANGED secIn
  /\ UNCHANGED <<storeVars, bakeVars, sectVars, searchVars, embVars, agentVars>>

InitSplit == StoreInit /\ BakeIdle /\ SectIdle /\ SearchIdle /\ SplitInit
  /\ EmbedIdle /\ AgentIdle

NextSplit == MakeChunks

SpecSplit == InitSplit /\ [][NextSplit]_vars

-----------------------------------------------------------------------------
(* Properties of the splitter (checked under SpecSplit) *)

RECURSIVE Concat(_)
Concat(seqs) == IF seqs = <<>> THEN <<>> ELSE Head(seqs) \o Concat(Tail(seqs))

\* The section was split: it gave two or more chunks.
WasSplit == secOut.pc = "done" /\ Len(secOut.chunks) >= 2

\* The overlap fragment as the block shows it: blocks are trimmed.
Shown(lap) == StripLeft(lap, Space)

\* A block's text after its leading overlap fragment.
NonOverlap(i) ==
  LET text == secOut.chunks[i].text
  IN  SubSeq(text, Len(Shown(secOut.blocks[i].lap)) + 1, Len(text))

C16_ParentIffSplit ==
  secOut.pc = "done" =>
    LET est == estimateTokens(secIn.text)
    IN  /\ \A i \in DOMAIN secOut.chunks :
             LET parent == secOut.chunks[i].meta.parent_chunk_id
             IN  /\ parent # Null <=> Len(secOut.chunks) >= 2
                 /\ parent # Null => parent = secIn.file \o <<":">> \o secIn.path
        /\ Len(secOut.chunks) >= 2
             => est > secIn.budget /\ Len(secOut.blocks) = Len(secOut.chunks)
        /\ (est <= secIn.budget \/ Len(secOut.blocks) <= 1)
             => Len(secOut.chunks) = 1

\* A section over the budget that is one paragraph gives one chunk without a
\* parent id.
C16_Witness ==
  /\ secOut.pc = "done"
  /\ estimateTokens(secIn.text) > secIn.budget
  /\ Len(secOut.blocks) = 1
  /\ Len(secOut.chunks) = 1
  /\ secOut.chunks[1].meta.parent_chunk_id = Null

-----------------------------------------------------------------------------
(* Further properties of the sectionizer (checked under SpecSect) *)

\* a step of the line loop, and the line it read
ReadsLine == scPc = "lines" /\ scPc' = "lines" /\ Len(doc') = Len(doc) + 1
LineRead == doc'[Len(doc')]

IsBlank(line) == StripLeft(line, Space) = <<>>
Trimmed(line) == StripRight(StripLeft(line, Space), Space)

\* C17: a line between fence markers changes neither the heading context nor
\* the sections, and is kept as it is in the buffer of the open section.
C17_FencedLinesKept ==
  [][(ReadsLine /\ inFence /\ ~isFence(LineRead))
       => /\ current' = current
          /\ sections' = sections
          /\ sectionBuf' = Append(sectionBuf, LineRead)]_vars

\* A document that is a heading and a fenced line of text ends without any
\* section.
C17_Witness ==
  /\ scPc = "done"
  /\ Len(doc) = 4
  /\ isHeading(doc[1]).match
  /\ isFence(doc[2]) /\ doc[3] = <<"x">> /\ isFence(doc[4])
  /\ sections = <<>>

\* C18: a heading line outside a fence first flushes the open buffer under the
\* context as it was, then sets the context: a first-level heading leaves h1
\* alone set; a second-level one sets h2, clears h3 and keeps h1; a third-level
\* one (or deeper) sets h3 and keeps h1 and h2.
C18_HeadingFlushesThenSetsContext ==
  [][(ReadsLine /\ ~inFence /\ ~isFence(LineRead) /\ isHeading(LineRead).match)
       => LET n     == isHeading(LineRead).hashes
              title == isHeading(LineRead).title
          IN  /\ sectionBuf' = <<>>
              /\ IF \E i \in DOMAIN sectionBuf : ~IsBlank(sectionBuf[i])
                 THEN /\ Len(sections') = Len(sections) + 1
                      /\ SubSeq(sections', 1, Len(sections)) = sections
                      /\ sections'[Len(sections')].path = currentPath(current)
                      /\ sections'[Len(sections')].title = currentTitle(current)
                 ELSE sections' = sections
              /\ n = 1 => /\ current'.h1.title = title /\ current'.h1.level = 1
                          /\ current'.h2 = NoFrame /\ current'.h3 = NoFrame
              /\ n = 2 => /\ current'.h2.title = title /\ current'.h2.level = 2
                          /\ current'.h3 = NoFrame /\ current'.h1 = current.h1
              /\ n >= 3 => /\ current'.h3.title = title /\ current'.h3.level = 3
                           /\ current'.h1 = current.h1 /\ current'.h2 = current.h2]_vars

\* After a first-level heading, text, a third-level and a second-level
\* heading: one section is flushed, h1 and h2 are set and h3 is cleared.
C18_Witness ==
  /\ Len(doc) = 4
  /\ isHeading(doc[1]).hashes = 1 /\ doc[2] = <<"x">>
  /\ isHeading(doc[3]).hashes = 3 /\ isHeading(doc[4]).hashes = 2
  /\ Len(sections) = 1
  /\ Has(current.h1) /\ Has(current.h2) /\ ~Has(current.h3)

RECURSIVE Asked(_, _, _, _, _)
Asked(i, fence, ctx, run, acc) ==
  LET close == IF run = <<>> THEN acc
               ELSE Append(acc, [path |-> currentPath(ctx), lines |-> run])
  IN  IF i > Len(doc) THEN close
      ELSE IF isFence(doc[i]) THEN Asked(i + 1, ~fence, ctx, run, acc)
      ELSE IF fence THEN Asked(i + 1, fence, ctx, run, acc)
      ELSE IF isHeading(doc[i]).match
      THEN Asked(i + 1, fence,
                 heading(ctx, isHeading(doc[i]).hashes, isHeading(doc[i]).title),
                 <<>>, close)
      ELSE Asked(i + 1, fence, ctx,
                 IF IsBlank(doc[i]) THEN run ELSE Append(run, Trimmed(doc[i])), acc)

\* The non-blank lines of a section's text, trimmed.
TextLines(text) ==
  LET lines == splitAt(text, "\n")
      kept  == SelectSeq(lines, LAMBDA l : ~IsBlank(l))
  IN  [i \in DOMAIN kept |-> Trimmed(kept[i])]

\* C20: every line outside fences that is neither blank nor a heading is in
\* the text of exactly one section, the one of the context active at the
\* line, and the lines keep their order within and across sections.
C20_EveryLineInItsSection ==
  scPc = "done" =>
    [i \in DOMAIN sections |->
       [path |-> sections[i].path, lines |-> TextLines(sections[i].text)]]
      = Asked(1, FALSE, [h1 |-> NoFrame, h2 |-> NoFrame, h3 |-> NoFrame], <<>>, <<>>)

\* A document whose first section starts with an indented line and holds two
\* lines, followed by a heading and a second section.
C20_Witness ==
  /\ scPc = "done"
  /\ Len(doc) = 4
  /\ doc[1] = <<" ", "y">> /\ doc[2] = <<"x">>
  /\ Len(sections) = 2
  /\ sections[1].text = <<"y", "\n", "x">>

-----------------------------------------------------------------------------
(* The command line's bake and rebake over one directory and one database  *)
(* file, with the documents edited between runs.                            *)

\* A document: unreadable, or read with no section, one section of one
\* block, or one section split in two blocks.
CliSections == {<<>>, <<[path |-> "a", blocks |-> 1]>>,
                <<[path |-> "a", blocks |-> 2]>>, <<[path |-> "b", blocks |-> 1]>>}

CliFileSets ==
  {<<[rel |-> "f1", secs |-> s1, readable |-> r1],
     [rel |-> "f2", secs |-> s2, readable |-> TRUE]>> :
     s1 \in CliSections, r1 \in BOOLEAN, s2 \in {<<>>, <<[path |-> "a", blocks |-> 1]>>}}

CliInit ==
  /\ files \in CliFileSets
  /\ bk = [run |-> 0, pc |-> "idle", f |-> 0, i |-> 0, dimSet |-> FALSE, total |-> 0]
  /\ emitted = <<>>

\* The documents of the directory are rewritten between two runs.
Edit ==
  /\ bk.pc \in {"done", "failed"}
  /\ bk.run < MaxRuns
  /\ files' \in CliFileSets \ {files}
  /\ UNCHANGED <<bk, emitted>>
  /\ UNCHANGED <<storeVars, sectVars, searchVars, splitVars, embVars, agentVars>>

\* cmd === "rebake": fs.unlink(dbPath) inside a try whose catch is empty,
\* then bake() on the path. unlinkOk: whether the file was removed.
Rebake ==
  /\ bk.pc \in {"idle", "done", "failed"}
  /\ bk.run < MaxRuns
  /\ \E unlinkOk \in BOOLEAN :
       /\ IF unlinkOk
          THEN /\ metaDim' = NoRow
               /\ vecTable' = FALSE
               /\ chunks' = EmptyFn
               /\ vecs' = EmptyFn
          ELSE UNCHANGED <<metaDim, vecTable, chunks, vecs>>
       /\ last' = [op |-> "unlink", threw |-> ~unlinkOk, arg |-> bk.run + 1,
                   mismatch |-> FALSE, wrote |-> EmptyFn]
       /\ emitted' = Append(emitted,
                            [rows |-> <<>>,
                             pc |-> FirstFile(bk.run + 1).pc,
                             stored |-> IF unlinkOk THEN 0
                                        ELSE Cardinality(DOMAIN chunks)])
  /\ dim' = 0
  /\ bk' = FirstFile(bk.run + 1)
  /\ UNCHANGED files
  /\ UNCHANGED <<sectVars, searchVars, splitVars, embVars, agentVars>>

InitCli == StoreInit /\ CliInit /\ SectIdle /\ SearchIdle /\ SplitIdle
  /\ EmbedIdle /\ AgentIdle

NextCli == BakeStart \/ BakeBatch \/ Edit \/ Rebake

SpecCli == InitCli /\ [][NextCli]_vars

-----------------------------------------------------------------------------
(* Properties of bake and rebake (checked under SpecCli) *)

\* the step is rebake's removal of the database file
Recreates == last'.op = "unlink" /\ ~last'.threw /\ bk'.run = bk.run + 1

\* C21: no bake run removes a stored chunk id, also when the documents were
\* edited and no longer produce it; the set of stored ids shrinks only in
\* the step of rebake that removes the database file.
C21_StoredIdsOnlyGrow ==
  [][Recreates \/ IdsStored \subseteq {chunks'[rid].id : rid \in DOMAIN chunks'}]_vars

\* A second run has completed over edited documents that no longer give an
\* id the first run stored, and that id is still stored.
C21_Witness ==
  /\ Len(emitted) = 2 /\ bk.pc = "done"
  /\ emitted[1].pc = "done"
  /\ emitted[2].rows # <<>>
  /\ \E id \in IdsStored :
       /\ \E j \in DOMAIN emitted[1].rows : emitted[1].rows[j].id = id
       /\ \A j \in DOMAIN emitted[2].rows : emitted[2].rows[j].id # id

\* the documents between the loop's place and g were read and gave no chunk
PassedOver(from, g) ==
  \A h \in (from + 1)..(g - 1) : files[h].readable /\ Len(FileChunks(h)) = 0

\* the step brings the loop over the documents to document g: at the start of
\* a run, or after the last batch of the document before it was committed
ComesTo(g) ==
  /\ g \in DOMAIN files
  /\ files' = files
  /\ \/ bk'.run = bk.run + 1 /\ PassedOver(0, g)
     \/ /\ bk'.run = bk.run /\ bk.pc = "running" /\ bk.f < g
        /\ bk'.total > bk.total
        /\ bk.i + BATCH >= Len(FileChunks(bk.f))
        /\ PassedOver(bk.f, g)

\* C23: when bake comes to a document that cannot be read, the run does not
\* end there: the document is skipped and the run goes on with the documents
\* after it.
C23_UnreadableDocumentSkipped ==
  [][\A g \in DOMAIN files :
       (ComesTo(g) /\ ~files[g].readable)
         => /\ bk'.pc # "failed"
            /\ bk'.pc = "running" => bk'.f > g]_vars

\* A run ended as failed at an unreadable first document while the second
\* document, which has a chunk, was not indexed.
C23_Witness ==
  /\ bk.pc = "failed" /\ bk.run = 1 /\ bk.f = 1
  /\ ~files[1].readable
  /\ files[2].readable /\ Len(FileChunks(2)) > 0
  /\ emitted[1].rows = <<>> /\ chunks = EmptyFn

-----------------------------------------------------------------------------
(* embedBatch on its own: the two routes do what they will *)

\* What a route gives for n texts: a throw, or n vectors, each of which may
\* be empty (a reply without an embedding).
RouteOutcomes(route, n) ==
  {Thrown(route)} \cup
  {Served(route, vs) : vs \in [1..n -> {Embedding(1, w) : w \in {0, 1, EmbDim}}]}

\* embedBatch(model, texts) with OLLAMA_NATIVE set or not.
EmbedBatch ==
  /\ \E n \in 0..MaxTexts, preferNative \in BOOLEAN :
       \E viaOllama \in RouteOutcomes("ollama", n),
          viaOpenAI \in RouteOutcomes("openai", n) :
         embCall' = [pc |-> "done", texts |-> n, preferNative |-> preferNative,
                     ollama |-> viaOllama, openai |-> viaOpenAI,
                     out |-> embedBatch(preferNative, viaOllama, viaOpenAI)]
  /\ UNCHANGED <<storeVars, bakeVars, sectVars, searchVars, splitVars, agentVars>>

InitEmbed == StoreInit /\ BakeIdle /\ SectIdle /\ SearchIdle /\ SplitIdle
  /\ EmbedIdle /\ AgentIdle

NextEmbed == EmbedBatch

SpecEmbed == InitEmbed /\ [][NextEmbed]_vars

-----------------------------------------------------------------------------
(* Properties of embedBatch (checked under SpecEmbed) *)

Preferred == IF embCall.preferNative THEN embCall.ollama ELSE embCall.openai
Alternate == IF embCall.preferNative THEN embCall.openai ELSE embCall.ollama

\* C24: embedBatch asks the preferred route once and the alternate route
\* once, only when the preferred one threw; when both throw the call throws;
\* a result whose first vector is empty makes the call throw; a call that
\* returns gives the vectors of the route that served, of width above 0.
C24_PreferredThenAlternateOnce ==
  embCall.pc = "done" =>
    LET out == embCall.out
        got == IF Preferred.threw THEN Alternate ELSE Preferred
    IN  /\ out.tried = IF Preferred.threw
                       THEN <<Preferred.route, Alternate.route>>
                       ELSE <<Preferred.route>>
        /\ Len(out.tried) <= 2
        /\ (Preferred.threw /\ Alternate.threw) => out.threw
        /\ (~got.threw /\ (got.vecs = <<>> \/ Len(got.vecs[1]) = 0)) => out.threw
        /\ ~out.threw => /\ ~got.threw
                         /\ out.vectors = got.vecs
                         /\ out.dim = Len(out.vectors[1])
                         /\ out.dim > 0

\* The preferred route threw and the alternate one served both texts: the
\* call returned the alternate's vectors after two attempts.
C24_Witness ==
  /\ embCall.pc = "done" /\ embCall.texts = 2
  /\ Preferred.threw /\ ~Alternate.threw
  /\ ~embCall.out.threw
  /\ embCall.out.tried = <<"openai", "ollama">>
  /\ embCall.out.vectors = Alternate.vecs

-----------------------------------------------------------------------------
(* The command line's search: parseArgs over process.argv, the options     *)
(* main builds from kv, SearchOptionsSchema.parse, search.                  *)

\* The arguments after the command: --key, --key=text, -x, or a word.
Long(key) == [kind |-> "long", key |-> key, eq |-> FALSE, text |-> <<>>]
LongEq(key, text) == [kind |-> "long", key |-> key, eq |-> TRUE, text |-> text]
Dash(key) == [kind |-> "dash", key |-> key, eq |-> FALSE, text |-> <<>>]
Word(text) == [kind |-> "word", key |-> "", eq |-> FALSE, text |-> text]

\* The values of kv: undefined, a string, or true.
NoValue == [kind |-> "undefined", text |-> <<>>]
Str(text) == [kind |-> "string", text |-> text]
True == [kind |-> "true", text |-> <<>>]

\* The keys an argument list of the model can set (a.slice(2) of --key).
Keys == {"q", "k", "db", "universe", "species", "subspecies", "content_type",
         "min_importance", "content-type", "min-importance", "debug"}

\* JavaScript truthiness of a kv value, and of the argument after a flag.
truthyValue(v) == v.kind = "true" \/ (v.kind = "string" /\ v.text # <<>>)
truthyArg(a) == a.kind # "word" \/ a.text # <<>>

\* a.startsWith("-")
startsWithDash(a) == a.kind \in {"long", "dash"}

\* The loop of parseArgs from rest[i] on; st = [threw, kv, debug].
RECURSIVE parseLoop(_, _, _)
parseLoop(rest, i, st) ==
  IF st.threw \/ i > Len(rest) THEN st
  ELSE
    LET a       == rest[i]
        hasNext == i < Len(rest) /\ truthyArg(rest[i + 1])
    IN  IF a = Long("debug")
        THEN parseLoop(rest, i + 1, [st EXCEPT !.debug = TRUE])
        ELSE IF a.kind = "long"
        THEN IF a.eq
             THEN parseLoop(rest, i + 1, [st EXCEPT !.kv[a.key] = Str(a.text)])
             ELSE IF hasNext /\ ~startsWithDash(rest[i + 1])
             THEN parseLoop(rest, i + 2,
                            [st EXCEPT !.kv[a.key] = Str(rest[i + 1].text)])
             ELSE parseLoop(rest, i + 1, [st EXCEPT !.kv[a.key] = True])
        ELSE IF a = Dash("q") \/ a = Dash("k")
        THEN IF ~hasNext \/ startsWithDash(rest[i + 1])
             THEN [st EXCEPT !.threw = TRUE]
             ELSE parseLoop(rest, i + 2,
                            [st EXCEPT !.kv[a.key] = Str(rest[i + 1].text)])
        ELSE parseLoop(rest, i + 1, st)

parseArgs(rest) ==
  parseLoop(rest, 1, [threw |-> FALSE, kv |-> [key \in Keys |-> NoValue],
                      debug |-> FALSE])

\* Number(text) for a decimal numeral, in hundredths (digits after the second
\* decimal are dropped); NaN for any other text but the empty one.
DigitChars == <<"0", "1", "2", "3", "4", "5", "6", "7", "8", "9">>
isDigits(t) == \A i \in DOMAIN t : t[i] \in Range(DigitChars)
digit(ch) == (CHOOSE d \in DOMAIN DigitChars : DigitChars[d] = ch) - 1

RECURSIVE natural(_)
natural(t) ==
  IF t = <<>> THEN 0 ELSE 10 * natural(SubSeq(t, 1, Len(t) - 1)) + digit(t[Len(t)])

NaN == [nan |-> TRUE, value |-> 0]
Num(v) == [nan |-> FALSE, value |-> v]

unsigned(t) ==
  LET dots == {i \in DOMAIN t : t[i] = "."}
  IN  IF dots = {}
      THEN IF isDigits(t) THEN Num(100 * natural(t)) ELSE NaN
      ELSE IF Cardinality(dots) > 1 THEN NaN
      ELSE
        LET at    == CHOOSE i \in dots : TRUE
            whole == SubSeq(t, 1, at - 1)
            frac  == SubSeq(t, at + 1, Len(t))
            two   == SubSeq(frac \o <<"0", "0">>, 1, 2)
        IN  IF ~isDigits(whole) \/ ~isDigits(frac) \/ (whole = <<>> /\ frac = <<>>)
            THEN NaN
            ELSE Num(100 * natural(whole) + natural(two))

toNumber(t) ==
  IF t = <<>> THEN Num(0)
  ELSE IF t[1] = "-"
  THEN LET u == unsigned(Tail(t))
       IN  IF u.nan \/ Len(t) = 1 THEN NaN ELSE Num(0 - u.value)
  ELSE unsigned(t)

\* Number(v) for a kv value: Number(true) is 1.
NumberOf(v) == IF v.kind = "true" THEN Num(100) ELSE toNumber(v.text)

\* The string of the model that a text spells (filter values and metadata
\* values are compared as whole strings).
Name(t) ==
  CASE t = <<"q", "u", "o", "t", "e">> -> "quote"
    [] t = <<"l", "i", "s", "t">> -> "list"
    [] t = <<"m", "i", "x", "e", "d">> -> "mixed"
    [] t = <<"n", "a", "r", "r", "a", "t", "i", "v", "e">> -> "narrative"
    [] t = <<"u", "1">> -> "u1"
    [] t = <<"s", "1">> -> "s1"
    [] t = <<"s", "s", "1">> -> "ss1"
    [] OTHER -> "?"

\* z.enum(['narrative', 'list', 'quote', 'mixed'])
ContentTypes == {"narrative", "list", "quote", "mixed"}

\* What main hands to search for a kv, and whether SearchOptionsSchema takes
\* it: q a string of at least one character, k a positive integer, the three
\* names strings, content_type one of the enum, min_importance in [0, 1].
\* A filter key is set when its kv value is truthy.
cliOptions(kv) ==
  LET k   == IF kv["k"].kind = "undefined" THEN Num(500) ELSE NumberOf(kv["k"])
      set == [key \in {"universe", "species", "subspecies", "content_type",
                       "min_importance"} |-> truthyValue(kv[key])]
      mi  == NumberOf(kv["min_importance"])
      name(key) == IF set[key] THEN Name(kv[key].text) ELSE Missing
  IN  [ok |-> /\ kv["q"].kind = "string"
              /\ ~k.nan /\ k.value > 0 /\ k.value % 100 = 0
              /\ \A key \in {"universe", "species", "subspecies", "content_type"} :
                   set[key] => kv[key].kind = "string"
              /\ set["content_type"] => Name(kv["content_type"].text) \in ContentTypes
              /\ set["min_importance"] => (~mi.nan /\ mi.value >= 0 /\ mi.value <= 100),
       opts |-> [q |-> kv["q"].text,
                 k |-> k.value \div 100,
                 filters |->
                   [given |-> \E key \in DOMAIN set : set[key],
                    universe |-> name("universe"),
                    species |-> name("species"),
                    subspecies |-> name("subspecies"),
                    content_type |-> name("content_type"),
                    min_importance |-> IF set["min_importance"] THEN mi.value ELSE -1]]]

\* main for cmd === "search": parseArgs, the check of q, the filters, search.
cliSearch(rows, rest, embedOk) ==
  LET p == parseArgs(rest)
  IN  IF p.threw THEN [pc |-> "threw", argv |-> rest]
      ELSE IF ~truthyValue(p.kv["q"]) THEN [pc |-> "exit", argv |-> rest]
      ELSE
        LET o == cliOptions(p.kv)
        IN  IF ~o.ok THEN [pc |-> "rejected", argv |-> rest]
            ELSE [argv |-> rest] @@ search(rows, o.opts, embedOk)

\* The argument lists: the query, k, a content type, a minimum importance
\* and one of the three names, each absent or given in one of its spellings.
ArgQ == {<<>>, <<Long("q"), Word(<<"A", "b", "x">>)>>, <<Dash("q"), Word(<<"y">>)>>}
ArgK == {<<>>, <<Dash("k"), Word(<<"1">>)>>, <<Dash("k")>>}
ArgType == {<<>>,
            <<Long("content-type"), Word(<<"q", "u", "o", "t", "e">>)>>,
            <<LongEq("content-type", <<"l", "i", "s", "t">>)>>,
            <<Long("content_type"), Word(<<"q", "u", "o", "t", "e">>)>>,
            <<Long("content_type")>>}
ArgImportance == {<<>>,
                  <<Long("min-importance"), Word(<<"0", ".", "6">>)>>,
                  <<Long("min_importance"), Word(<<"0", ".", "6">>)>>,
                  <<LongEq("min_importance", <<"-", "1">>)>>}
ArgName == {<<>>,
            <<Long("universe"), Word(<<"u", "1">>)>>,
            <<Long("species"), Word(<<"s", "1">>)>>,
            <<Long("subspecies"), Word(<<"s", "s", "1">>)>>}

ArgLists == {q \o k \o t \o m \o n :
               q \in ArgQ, k \in ArgK, t \in ArgType, m \in ArgImportance, n \in ArgName}

\* Up to MaxCliRows stored rows of any kind, all as near to the query.
CliCorpora ==
  {[i \in DOMAIN c |->
      [id |-> i, path |-> <<"y">>, chunk |-> c[i].chunk,
       metadata |-> c[i].metadata, distance |-> 0]] :
     c \in SeqsUpTo(RowKinds, MaxCliRows)}

CliSearchInit ==
  /\ corpus \in CliCorpora
  /\ srch = NoSearch

\* One run of "weave-chunker search ...".
CliSearch ==
  /\ srch.pc = "idle"
  /\ \E rest \in ArgLists, embedOk \in BOOLEAN :
       srch' = cliSearch(corpus, rest, embedOk)
  /\ UNCHANGED corpus
  /\ UNCHANGED <<storeVars, bakeVars, sectVars, splitVars, embVars, agentVars>>

InitCliSearch == StoreInit /\ BakeIdle /\ SectIdle /\ CliSearchInit /\ SplitIdle
  /\ EmbedIdle /\ AgentIdle

NextCliSearch == CliSearch

SpecCliSearch == InitCliSearch /\ [][NextCliSearch]_vars

-----------------------------------------------------------------------------
(* Properties of the command line's search (checked under SpecCliSearch) *)

\* the argument list holds --key followed by a word
HasFlag(key) ==
  \E i \in 1..(Len(srch.argv) - 1) :
    srch.argv[i] = Long(key) /\ srch.argv[i + 1].kind = "word"

FlagText(key) ==
  srch.argv[(CHOOSE i \in 1..(Len(srch.argv) - 1) : srch.argv[i] = Long(key)) + 1].text

\* C25: a search run with --content-type TYPE and/or --min-importance NUM
\* returns only hits of content type TYPE and of importance at least NUM
\* (among the hits whose metadata parses).
C25_CliFlagsFilterHits ==
  srch.pc = "done" =>
    \A i \in DOMAIN srch.hits :
      srch.hits[i].metadata.kind = "object" =>
        /\ HasFlag("content-type")
             => srch.hits[i].metadata.content_type = Name(FlagText("content-type"))
        /\ HasFlag("min-importance")
             => srch.hits[i].metadata.importance_score
                  >= toNumber(FlagText("min-importance")).value

\* A search with --content-type quote and --min-importance 0.6 returned a
\* narrative hit of importance 0.1, with no filter handed to search.
C25_Witness ==
  /\ srch.pc = "done"
  /\ HasFlag("content-type") /\ FlagText("content-type") = <<"q", "u", "o", "t", "e">>
  /\ HasFlag("min-importance")
  /\ ~srch.opts.filters.given
  /\ \E i \in DOMAIN srch.hits :
       /\ srch.hits[i].metadata.kind = "object"
       /\ srch.hits[i].metadata.content_type = "narrative"
       /\ srch.hits[i].metadata.importance_score = 10

\* C29: under an active universe, species, subspecies or content_type filter
\* or a positive min_importance, a stored row whose metadata column is null
\* or empty is dropped by the filters, and a row whose metadata does not
\* parse is kept.
C29_AbsentDroppedUnparsableKept ==
  (srch.pc = "done" /\ srch.opts.filters.given /\ ActiveFilters(srch.opts.filters)) =>
    \A i \in DOMAIN corpus :
      /\ corpus[i].metadata.kind = "absent" => i \notin Range(srch.kept)
      /\ corpus[i].metadata.kind = "unparsable" => i \in Range(srch.kept)

\* Under a subspecies filter alone, of a row without metadata and a row
\* whose metadata does not parse only the second is kept.
C29_Witness ==
  /\ srch.pc = "done"
  /\ truthy(srch.opts.filters.subspecies)
  /\ ~truthy(srch.opts.filters.content_type) /\ srch.opts.filters.min_importance <= 0
  /\ Len(corpus) = 2
  /\ corpus[1].metadata.kind = "absent"
  /\ corpus[2].metadata.kind = "unparsable"
  /\ srch.kept = <<2>>

-----------------------------------------------------------------------------
(* The agent's lookupLore tool: it runs the command line's search *)

exactTitleBonus == 5000    \* a query term that is the whole title: += 0.5
substringBonus == 3000     \* a query term the title includes: += 0.3

GovernanceStructure ==
  <<"g", "o", "v", "e", "r", "n", "a", "n", "c", "e", " ", "s", "t", "r", "u", "c", "t", "u", "r", "e">>
Governance == <<"g", "o", "v", "e", "r", "n", "a", "n", "c", "e">>

KaelariTitle ==
  <<"K", "a", "e", "l", "a", "r", "i", " ", "G", "o", "v", "e", "r", "n", "a", "n", "c", "e", " ", "&", " ", "S", "o", "c", "i", "a", "l", " ", "S", "t", "r", "u", "c", "t", "u", "r", "e">>
IncidentalTitle == <<"M", "i", "s", "g", "o", "v", "e", "r", "n", "a", "n", "c", "e">>
TwiceIncidentalTitle ==
  <<"R", "e", "s", "t", "r", "u", "c", "t", "u", "r", "e", "d", " ", "M", "i", "s", "g", "o", "v", "e", "r", "n", "a", "n", "c", "e">>
OtherTitle == <<"B">>

LoreTitles ==
  {KaelariTitle, IncidentalTitle, TwiceIncidentalTitle, OtherTitle,
   <<"G">> \o Tail(Governance)}

\* Stored rows that differ in their section title and importance only; text,
\* path and source file hold no query term.
LoreRows ==
  {[chunk |-> LongChunk, metadata |-> Meta("u1", "s1", "narrative", imp, title, {}, {})] :
     title \in LoreTitles, imp \in {50, 90}}

LoreCorpora ==
  {[i \in DOMAIN c |->
      [id |-> i, path |-> <<"y">>, chunk |-> c[i].chunk,
       metadata |-> c[i].metadata, distance |-> 0]] :
     c \in SeqsUpTo(LoreRows, MaxCliRows)}

\* n.toString() for a number of one digit
toString(n) == <<DigitChars[n + 1]>>

\* The arguments lookupLore joins into the command it runs; the shell takes
\* the quotes off the query.
lookupArgs(params) ==
  <<Long("q"), Word(params.query), Long("db"), Word(<<"d", "b">>),
    Dash("k"), Word(toString(params.maxResults))>>
    \o (IF params.contentType # <<>>
        THEN <<Long("content-type"), Word(params.contentType)>> ELSE <<>>)
    \o (IF params.minImportance # <<>>
        THEN <<Long("min-importance"), Word(params.minImportance)>> ELSE <<>>)

LoreInit ==
  /\ corpus \in LoreCorpora
  /\ srch = NoSearch

\* lookupLore(params): the search command run once.
LookupLore ==
  /\ srch.pc = "idle"
  /\ \E query \in {GovernanceStructure, Governance}, maxResults \in {1, 2},
        contentType \in {<<>>, <<"q", "u", "o", "t", "e">>},
        minImportance \in {<<>>, <<"0", ".", "6">>}, embedOk \in BOOLEAN :
       srch' = cliSearch(corpus,
                         lookupArgs([query |-> query, maxResults |-> maxResults,
                                     contentType |-> contentType,
                                     minImportance |-> minImportance]),
                         embedOk)
  /\ UNCHANGED corpus
  /\ UNCHANGED <<storeVars, bakeVars, sectVars, splitVars, embVars, agentVars>>

InitLore == StoreInit /\ BakeIdle /\ SectIdle /\ LoreInit /\ SplitIdle
  /\ EmbedIdle /\ AgentIdle

NextLore == LookupLore

SpecLore == InitLore /\ [][NextLore]_vars

-----------------------------------------------------------------------------
(* Properties of the ranking (checked under SpecLore) *)

\* two hits that differ in their titles only
SameButTitle(h, g) ==
  /\ h.distance = g.distance
  /\ h.metadata.importance_score = g.metadata.importance_score

\* C26: for the query "governance structure", a hit titled "Kaelari
\* Governance & Social Structure" gets exact-title bonuses (0.5 for one or
\* for both terms) over a hit whose title matches nothing, and is ranked
\* strictly above a hit of the same base similarity whose only match is a
\* term found inside another word of its title.
C26_ExactTitleBonusRanksFirst ==
  (srch.pc = "done" /\ srch.opts.q = GovernanceStructure) =>
    \A i, j \in DOMAIN srch.hits :
      (srch.hits[i].metadata.section_title = KaelariTitle
         /\ SameButTitle(srch.hits[i], srch.hits[j]))
        => /\ srch.hits[j].metadata.section_title = OtherTitle
                => \E n \in 1..2 :
                     srch.hits[i].relevance - srch.hits[j].relevance
                       = n * exactTitleBonus
           /\ srch.hits[j].metadata.section_title = IncidentalTitle
                => i < j /\ srch.hits[i].relevance > srch.hits[j].relevance

\* The hit with the Kaelari title is scored two substring bonuses above a hit
\* whose title matches nothing.
C26_Witness ==
  /\ srch.pc = "done" /\ srch.opts.q = GovernanceStructure
  /\ Len(srch.hits) = 2
  /\ srch.hits[1].metadata.section_title = KaelariTitle
  /\ srch.hits[2].metadata.section_title = OtherTitle
  /\ SameButTitle(srch.hits[1], srch.hits[2])
  /\ srch.hits[1].relevance - srch.hits[2].relevance = 2 * substringBonus

-----------------------------------------------------------------------------
(* Further properties of the splitter (checked under SpecSplit) *)

\* the paragraphs splitSectionBySize is given for the section
ParasIn == splitParas(contextualText(secIn))

\* the running estimate a block was committed with: that of its overlap
\* fragment and those of its paragraphs
RECURSIVE SumTokens(_)
SumTokens(ps) ==
  IF ps = <<>> THEN 0 ELSE estimateTokens(Head(ps)) + SumTokens(Tail(ps))

Running(block) ==
  (IF block.lap = <<>> THEN 0 ELSE estimateTokens(block.lap)) + SumTokens(block.own)

\* C27: the splitter passes once over the paragraphs (each goes to one block,
\* in order), gives at least one block and at most as many blocks as there
\* are paragraphs, and a text of one paragraph gives exactly one block, which
\* holds the whole text, also when it is over the budget.
C27_OnePassBoundedBlocks ==
  secOut.pc = "done" =>
    /\ Concat([i \in DOMAIN secOut.blocks |-> secOut.blocks[i].own]) = ParasIn
    /\ Len(secOut.blocks) >= 1
    /\ Len(secOut.blocks) <= Len(ParasIn)
    /\ Len(ParasIn) = 1
         => /\ Len(secOut.blocks) = 1
            /\ secOut.blocks[1].text = contextualText(secIn)
            /\ Len(secOut.chunks) = 1
            /\ secOut.chunks[1].text = contextualText(secIn)

\* A section of one paragraph whose estimate is over the budget gave exactly
\* one block, committed with a running estimate above the budget.
C27_Witness ==
  /\ secOut.pc = "done"
  /\ Len(ParasIn) = 1
  /\ Len(secOut.blocks) = 1
  /\ secOut.blocks[1].own = ParasIn
  /\ Running(secOut.blocks[1]) > secIn.budget

\* C28: a block whose running estimate is above the budget holds exactly one
\* paragraph of the section (after its overlap fragment, if it has one); a
\* block of two or more paragraphs has a running estimate within the budget;
\* no block is an overlap fragment alone.
C28_OverBudgetOnlySingleParagraph ==
  secOut.pc = "done" =>
    \A i \in DOMAIN secOut.blocks :
      LET block == secOut.blocks[i]
      IN  /\ Len(block.own) >= 1
          /\ Running(block) > secIn.budget => Len(block.own) = 1
          /\ Len(block.own) >= 2 => Running(block) <= secIn.budget

\* One block holds two paragraphs within the budget and the next holds an
\* overlap fragment and one paragraph that together are over it.
C28_Witness ==
  /\ secOut.pc = "done"
  /\ \E i \in DOMAIN secOut.blocks :
       /\ Len(secOut.blocks[i].own) = 2
       /\ i + 1 \in DOMAIN secOut.blocks
       /\ secOut.blocks[i + 1].lap # <<>>
       /\ Len(secOut.blocks[i + 1].own) = 1
       /\ Running(secOut.blocks[i + 1]) > secIn.budget

-----------------------------------------------------------------------------
(* The historian agent: KaelariHistorian.query and its research loop.     *)
(* Each await of conductAutonomousResearch is a step: one iteration of   *)
(* the while loop (a chat call with the tools and the tool calls it asks *)
(* for), then the synthesis call.                                         *)

maxIterations == 10

\* The test of the while loop admits one iteration more.
withinIterationsInclusive(iteration) == iteration <= maxIterations

\* while (iteration < maxIterations)
withinIterations(iteration) == iteration < maxIterations

\* The tool calls a chat response can ask for: search_lore, whose lookup
\* runs (with 0 or 1 hits) or fails, and a function of another name.
ToolCalls ==
  {[name |-> "search_lore", runs |-> TRUE, results |-> n] : n \in 0..1}
  \cup {[name |-> "search_lore", runs |-> FALSE, results |-> 0],
        [name |-> "other", runs |-> FALSE, results |-> 0]}

\* What callOllamaChatWithTools(messages, tools) comes to: it throws, or
\* returns a response with its tool_calls (none: a final answer).
ChatOutcomes ==
  {[threw |-> TRUE, tool_calls |-> <<>>]}
  \cup {[threw |-> FALSE, tool_calls |-> cs] : cs \in SeqsUpTo(ToolCalls, MaxCalls)}

\* executeSearchTool: lookupLore's result, a failure when it throws or fails.
executeSearchTool(call) ==
  IF call.runs THEN [success |-> TRUE, results |-> call.results]
  ELSE [success |-> FALSE, results |-> 0]

\* The for loop over response.tool_calls (lines 150-172).
RECURSIVE runToolCalls(_, _)
runToolCalls(tcs, acc) ==
  IF tcs = <<>> THEN acc
  ELSE LET toolCall == Head(tcs)
       IN  IF toolCall.name = "search_lore"
           THEN LET toolResult == executeSearchTool(toolCall)
                IN  runToolCalls(Tail(tcs),
                      [allSources |-> acc.allSources
                                      + (IF toolResult.success THEN toolResult.results ELSE 0),
                       hasValidToolCall |-> acc.hasValidToolCall \/ toolResult.success,
                       messages |-> acc.messages + 2])
           ELSE runToolCalls(Tail(tcs), acc)

\* A response: its answer's kind, and the sources formatSources keeps.
Response(kind, allSources) == [answer |-> kind, sources |-> Min(allSources, 10)]

\* query's try/catch around conductAutonomousResearch (lines 62-77).
query(completion) ==
  IF completion.threw THEN Response("apology", 0) ELSE completion.value

\* The loop is left without a final answer: the synthesis message is pushed.
toSynthesis(a, why) ==
  [a EXCEPT !.pc = "synthesis", !.ended = why, !.messages = @ + 1]

\* query(input): conductAutonomousResearch up to its first await.
Query ==
  /\ agent.pc \in {"idle", "resolved"}
  /\ LET a == [pc |-> "loop", iteration |-> 0, chats |-> 0, synth |-> 0,
               allSources |-> 0, messages |-> 2, ended |-> "no",
               response |-> Response("none", 0)]
     IN  agent' = IF withinIterations(0) THEN a ELSE toSynthesis(a, "iteration limit")
  /\ UNCHANGED <<storeVars, bakeVars, sectVars, searchVars, splitVars, embVars>>

\* One iteration of the while loop (lines 139-190) and the test that follows.
ResearchIteration ==
  /\ agent.pc = "loop"
  /\ \E out \in ChatOutcomes :
       LET iteration == agent.iteration + 1
           a1 == [agent EXCEPT !.iteration = iteration, !.chats = @ + 1]
       IN  agent' =
             IF out.threw THEN toSynthesis(a1, "chat threw")
             ELSE IF out.tool_calls # <<>>
             THEN LET r == runToolCalls(out.tool_calls,
                             [allSources |-> a1.allSources,
                              hasValidToolCall |-> FALSE,
                              messages |-> a1.messages])
                      a2 == [a1 EXCEPT !.allSources = r.allSources,
                                       !.messages = r.messages]
                  IN  IF ~r.hasValidToolCall THEN toSynthesis(a2, "no valid tool call")
                      ELSE IF withinIterations(iteration) THEN a2
                      ELSE toSynthesis(a2, "iteration limit")
             ELSE [a1 EXCEPT !.pc = "resolved", !.ended = "final answer",
                             !.response =
                                query([threw |-> FALSE,
                                       value |-> Response("final", a1.allSources)])]
  /\ UNCHANGED <<storeVars, bakeVars, sectVars, searchVars, splitVars, embVars>>

\* The synthesis call without tools and its try/catch (lines 198-211).
FinalSynthesis ==
  /\ agent.pc = "synthesis"
  /\ \E threw \in BOOLEAN :
       agent' = [agent EXCEPT
                   !.pc = "resolved", !.synth = @ + 1,
                   !.response =
                      query([threw |-> FALSE,
                             value |-> Response(IF threw THEN "fallback" ELSE "synthesis",
                                                agent.allSources)])]
  /\ UNCHANGED <<storeVars, bakeVars, sectVars, searchVars, splitVars, embVars>>

InitAgent == StoreInit /\ BakeIdle /\ SectIdle /\ SearchIdle /\ SplitIdle
  /\ EmbedIdle /\ AgentIdle

NextAgent == Query \/ ResearchIteration \/ FinalSynthesis

\* The awaited calls return: a started step of the loop is taken.
SpecAgent ==
  /\ InitAgent
  /\ [][NextAgent]_vars
  /\ WF_vars(ResearchIteration)
  /\ WF_vars(FinalSynthesis)

Researching == agent.pc \in {"loop", "synthesis"}

AgentBounded ==
  agent.pc # "idle" =>
    /\ agent.chats <= maxIterations
    /\ agent.synth <= 1
    /\ agent.pc = "loop" => agent.synth = 0 /\ agent.chats < maxIterations
    /\ agent.pc = "synthesis"
         => /\ agent.synth = 0
            /\ agent.ended \in {"iteration limit", "no valid tool call", "chat threw"}
    /\ agent.pc = "resolved"
         => /\ agent.ended = "final answer"
                 => agent.synth = 0 /\ agent.response.answer = "final"
            /\ agent.ended # "final answer"
                 => /\ agent.synth = 1
                    /\ agent.response.answer \in {"synthesis", "fallback"}
                    /\ agent.ended \in {"iteration limit", "no valid tool call",
                                        "chat threw"}

\* C30: for one query the loop makes at most maxIterations (10) chat calls
\* with the tools; when it is left without a final answer (the limit, a turn
\* without a successful search_lore call, a chat call that throws) exactly one
\* synthesis call without tools follows, and none after a final answer; and
\* every query that was started resolves to a response.
C30_ResearchTerminates ==
  /\ []AgentBounded
  /\ Researching ~> (agent.pc = "resolved")

\* A query that used all ten iterations, each with a successful search, and
\* resolved after its one synthesis call.
C30_Witness ==
  /\ agent.pc = "resolved"
  /\ agent.chats = maxIterations
  /\ agent.ended = "iteration limit"
  /\ agent.synth = 1
  /\ agent.response.answer = "synthesis"

====
